---- MODULE Spec2Model ----
(***************************************************************************)
(* A model of metslib: the permutation-problem skeleton and its moves      *)
(* (model.hh) and the termination-criteria chain (termination-criteria.hh).*)
(*                                                                         *)
(* C++ containers are indexed from 0, so pi_m is a function on 0..n-1.     *)
(* gol_type values are integers here: every cost the model produces is an  *)
(* integer that a double represents exactly.  compute_cost() and           *)
(* evaluate_swap() are the user's: the model supplies two cost functions   *)
(* and the exact delta of each, as the contract of evaluate_swap() asks.   *)
(***************************************************************************)
EXTENDS Integers, Sequences, FiniteSets, TLC

\* Largest problem size whose solutions are explored.
MaxN == 4

\* Largest iteration budget given to a termination criterion.
MaxIter == 2

\* Largest cost value fed to a termination chain.
MaxCost == 2

\* Largest number of nodes in a termination chain.
MaxChain == 2

\* Most invocations of a termination chain between two resets.
MaxCalls == 4

\* Most constructor and move calls logged.
MaxApi == 2

\* Most moves of a swap_neighborhood.
MaxMoves == 3

\* Most solutions offered to a recorder.
MaxOffers == 5

\* Largest starting temperature of a search, and largest value a user-defined
\* cooling schedule returns.
MaxTemp == 2

\* Most outer iterations of a search that its temperature does not end.
MaxOuter == 3

\* Largest starting temperature of scenario S1.
S1MaxTemp == 10

\* Loop iterations after which a constructor loop that has not met its exit
\* test is taken to run away: more than any constructor of a size up to MaxN needs.
LoopCap == MaxN * MaxN

\* std::numeric_limits<gol_type>::max(): larger than every cost of the model.
GolMax == 1000

VARIABLES
    pi_m,       \* permutation_problem::pi_m of the working solution
    cost_m,     \* permutation_problem::cost_m of the working solution
    costKind,   \* which user cost function compute_cost() and evaluate_swap() implement
    updated,    \* history: cost_m was set by update_cost() (here or in the copied source)
    pre,        \* history: [pi, cost] of the working solution before the last operation
                \* (after it, when the operation was copy_from)
    last,       \* history: the last operation, its arguments and the move's evaluate()
    chain,      \* the termination chain: a sequence of criteria, head first
    fresh,      \* history: a chain constructed at the last reset (or construction), fed the same costs
    built,      \* history: the chain as it was constructed
    tlast,      \* history: the last chain operation, the cost it saw and the answers
    calls,      \* history: invocations of the chain since construction or the last reset
    streak,     \* history: consecutive invocations that did not improve on the tracked best
    cfg,        \* simulated_annealing: starting_temp_m, stop_temp_m and the cooling schedule
    current_temp_m, \* simulated_annealing::current_temp_m
    moves_m,    \* move_manager::moves_m of the neighborhood the search explores
    recorder,   \* the solution recorder: best cost and snapshot
    pc,         \* where search() stands: "idle", "check", "scan", "cool" or "done"
    movit,      \* the iterator of the scan, as an index into moves_m (from 1)
    actual_cost,\* the local actual_cost of search()
    events,     \* history: the notifications of the current outer iteration
    g,          \* history: counters of the current search and of its current iteration
    offered,    \* history: the solutions offered to the recorder by its caller, in order
    answers,    \* history: what accept() returned on each offer, and the best cost after it
    api,        \* history: the constructor and move calls made so far, with their outcomes
    objs,       \* the solution objects of a program that copies between them
    heap,       \* the storage objects own: the vector behind a pi_m, or a move object
    cop,        \* history: the last operation on objs, its outcome and the values before it
    nbh         \* a swap_neighborhood: n and the addresses in moves_m

vars == <<pi_m, cost_m, costKind, updated, pre, last,
          chain, fresh, built, tlast, calls, streak,
          cfg, current_temp_m, moves_m, recorder, pc, movit, actual_cost, events, g,
          offered, answers, api, objs, heap, cop, nbh>>

saVars == <<cfg, current_temp_m, moves_m, recorder, pc, movit, actual_cost, events, g>>

apiVars == <<offered, answers, api>>

objVars == <<objs, heap, cop, nbh>>

permVars == <<pi_m, cost_m, costKind, updated, pre, last>>
chainVars == <<chain, fresh, built, tlast, calls, streak>>

-----------------------------------------------------------------------------
(* Helpers *)

Min(a, b) == IF a < b THEN a ELSE b
Max(a, b) == IF a > b THEN a ELSE b

\* A C++ vector written as a tuple, as the 0-based function the model uses.
Vec(s) == [i \in 0..(Len(s) - 1) |-> s[i + 1]]

RECURSIVE SumIdx(_, _)
SumIdx(f, k) == IF k < 0 THEN 0 ELSE f[k] + SumIdx(f, k - 1)

IsPermutation(pi, n) ==
    /\ DOMAIN pi = 0..(n - 1)
    /\ \A v \in 0..(n - 1) : Cardinality({i \in DOMAIN pi : pi[i] = v}) = 1

\* Every arrangement std::shuffle can produce, per size.
Arrangements ==
    [n \in 2..MaxN |-> {p \in [0..(n - 1) -> 0..(n - 1)] : IsPermutation(p, n)}]

CostKinds == {"linear", "adjacent"}

-----------------------------------------------------------------------------
(* permutation_problem *)

\* permutation_problem(int n): pi_m = {0, 1, ..., n-1}, cost_m = 0.
permutation_problem(n) == [pi |-> [i \in 0..(n - 1) |-> i], cost |-> 0]

size(pi) == Cardinality(DOMAIN pi)

\* The user's compute_cost(): either sum of pi[i]*i, or sum of pi[i]*pi[i+1]
\* (a cost in which swaps of neighbouring positions interact).
compute_cost(kind, pi) ==
    LET n == size(pi) IN
    IF kind = "linear"
    THEN SumIdx([i \in 0..(n - 1) |-> pi[i] * i], n - 1)
    ELSE SumIdx([i \in 0..(n - 2) |-> pi[i] * pi[i + 1]], n - 2)

\* std::swap(pi_m[i], pi_m[j])
SwapPi(pi, i, j) == [pi EXCEPT ![i] = pi[j], ![j] = pi[i]]

\* The user's evaluate_swap(i, j), honouring its contract: the exact delta of
\* the user's cost function ck, without touching pi.
evaluate_swap(ck, pi, i, j) == compute_cost(ck, SwapPi(pi, i, j)) - compute_cost(ck, pi)

\* update_cost(): cost_m = compute_cost()
update_cost(ck, s) == [s EXCEPT !.cost = compute_cost(ck, s.pi)]

\* A plausible slip: exchange first, evaluate the delta afterwards.
apply_swap_late(ck, s, i, j) ==
    [pi |-> SwapPi(s.pi, i, j),
     cost |-> s.cost + evaluate_swap(ck, SwapPi(s.pi, i, j), i, j)]

\* A plausible slip: overwrite pi[i] with pi[j] without saving it.
apply_swap_clobber(ck, s, i, j) ==
    [pi |-> [s.pi EXCEPT ![i] = s.pi[j]],
     cost |-> s.cost + evaluate_swap(ck, s.pi, i, j)]

\* apply_swap(i, j): cost_m += evaluate_swap(i, j); std::swap(pi_m[i], pi_m[j]).
apply_swap(ck, s, i, j) ==
    [pi |-> SwapPi(s.pi, i, j),
     cost |-> s.cost + evaluate_swap(ck, s.pi, i, j)]

\* copy_from(other): pi_m = o.pi_m; cost_m = o.cost_m.
copy_from(s, o) == [pi |-> o.pi, cost |-> o.cost]

\* random_shuffle(p, rng): any arrangement of pi_m, then update_cost().
random_shuffle(ck, s) ==
    {update_cost(ck, [s EXCEPT !.pi = p]) : p \in Arrangements[size(s.pi)]}

-----------------------------------------------------------------------------
(* Moves *)

\* swap_elements(from, to): p1 = min, p2 = max.
swap_elements(from, to) == [kind |-> "swap", p1 |-> Min(from, to), p2 |-> Max(from, to)]

\* invert_subsequence(from, to): p1 = from, p2 = to.
invert_subsequence(from, to) == [kind |-> "invert", p1 |-> from, p2 |-> to]

\* A plausible slip: return the delta only, as invert_subsequence::evaluate does.
swap_elements_evaluate_delta(ck, m, s) == evaluate_swap(ck, s.pi, m.p1, m.p2)

\* swap_elements::evaluate: sol.cost_function() + sol.evaluate_swap(p1, p2).
swap_elements_evaluate(ck, m, s) == s.cost + evaluate_swap(ck, s.pi, m.p1, m.p2)

\* swap_elements::apply: sol.apply_swap(p1, p2).
swap_elements_apply(ck, m, s) == apply_swap(ck, s, m.p1, m.p2)

\* int top = p1 < p2 ? (p2 - p1 + 1) : (size + p2 - p1 + 1);
invert_top(n, p1, p2) == IF p1 < p2 THEN p2 - p1 + 1 ELSE n + p2 - p1 + 1

\* The loop of invert_subsequence::apply from iteration ii on.
RECURSIVE invert_apply_loop(_, _, _, _)
invert_apply_loop(ck, m, s, ii) ==
    LET n == size(s.pi)
        from == (m.p1 + ii) % n
        to == (n + m.p2 - ii) % n
    IN  IF ii = invert_top(n, m.p1, m.p2) \div 2
        THEN s
        ELSE invert_apply_loop(ck, m, apply_swap(ck, s, from, to), ii + 1)

\* A plausible slip: the mirror index walks up instead of down.
invert_subsequence_apply_up(ck, m, s) ==
    LET n == size(s.pi)
        step[ii \in 0..n] ==
            IF ii = 0 THEN s
            ELSE apply_swap(ck, step[ii - 1], (m.p1 + ii - 1) % n, (m.p2 + ii - 1) % n)
    IN  step[invert_top(n, m.p1, m.p2) \div 2]

\* invert_subsequence::apply
invert_subsequence_apply(ck, m, s) == invert_apply_loop(ck, m, s, 0)

\* The loop of invert_subsequence::evaluate from iteration ii on, eval so far.
RECURSIVE invert_evaluate_loop(_, _, _, _, _)
invert_evaluate_loop(ck, m, s, ii, eval) ==
    LET n == size(s.pi)
        from == (m.p1 + ii) % n
        to == (n + m.p2 - ii) % n
    IN  IF ii = invert_top(n, m.p1, m.p2) \div 2
        THEN eval
        ELSE invert_evaluate_loop(ck, m, s, ii + 1, eval + evaluate_swap(ck, s.pi, from, to))

\* invert_subsequence::evaluate: eval = 0.0; eval += evaluate_swap(from, to) ...
invert_subsequence_evaluate(ck, m, s) == invert_evaluate_loop(ck, m, s, 0, 0)

-----------------------------------------------------------------------------
(* The working solution and the operations on it *)

sol == [pi |-> pi_m, cost |-> cost_m]

NoOp == [op |-> "construct", a |-> 0, b |-> 0, eval |-> 0]

\* What the operation did, with the history it leaves.
Becomes(s, op, a, b, eval) ==
    /\ pi_m' = s.pi
    /\ cost_m' = s.cost
    /\ pre' = sol
    /\ last' = [op |-> op, a |-> a, b |-> b, eval |-> eval]

InitPerm ==
    /\ \E n \in 2..MaxN :
        /\ pi_m = permutation_problem(n).pi
        /\ cost_m = permutation_problem(n).cost
        /\ pre = permutation_problem(n)
    /\ costKind \in CostKinds
    /\ updated = FALSE
    /\ last = NoOp

UpdateCost ==
    /\ Becomes(update_cost(costKind, sol), "update_cost", 0, 0, 0)
    /\ updated' = TRUE
    /\ UNCHANGED <<objVars, apiVars, costKind, chainVars, saVars>>

ApplySwap ==
    \E i \in DOMAIN pi_m, j \in DOMAIN pi_m :
        /\ Becomes(apply_swap(costKind, sol, i, j), "apply_swap", i, j, 0)
        /\ UNCHANGED <<objVars, apiVars, costKind, updated, chainVars, saVars>>

SwapElementsApply ==
    \E a \in DOMAIN pi_m, b \in DOMAIN pi_m :
        LET m == swap_elements(a, b) IN
        /\ Becomes(swap_elements_apply(costKind, m, sol), "swap_elements", a, b,
                   swap_elements_evaluate(costKind, m, sol))
        /\ UNCHANGED <<objVars, apiVars, costKind, updated, chainVars, saVars>>

InvertSubsequenceApply ==
    \E a \in DOMAIN pi_m, b \in DOMAIN pi_m :
        LET m == invert_subsequence(a, b) IN
        /\ Becomes(invert_subsequence_apply(costKind, m, sol), "invert_subsequence", a, b,
                   invert_subsequence_evaluate(costKind, m, sol))
        /\ UNCHANGED <<objVars, apiVars, costKind, updated, chainVars, saVars>>

\* The solutions another instance can hold, per size and cost function: as
\* constructed, or shuffled (random_shuffle ends with update_cost).
OtherSolutions ==
    [n \in 2..MaxN, ck \in CostKinds |->
        [s : {permutation_problem(n)}, upd : {FALSE}]
            \cup [s : random_shuffle(ck, permutation_problem(n)), upd : {TRUE}]]

CopyFrom ==
    \E o \in OtherSolutions[size(pi_m), costKind] :
        LET s == copy_from(sol, o.s) IN
        /\ pi_m' = s.pi
        /\ cost_m' = s.cost
        /\ pre' = s
        /\ last' = [op |-> "copy_from", a |-> 0, b |-> 0, eval |-> 0]
        /\ updated' = o.upd
        /\ UNCHANGED <<objVars, apiVars, costKind, chainVars, saVars>>

-----------------------------------------------------------------------------
(* Termination criteria.  A chain is a sequence of criteria: next_m of the    *)
(* k-th criterion is the (k+1)-th, and the last one has next_m = 0.           *)

\* iteration_termination_criteria(next, max): max_m(max), iterations_m(max)
iteration_termination_criteria(max) ==
    [kind |-> "iteration", max_m |-> max, iterations_m |-> max]

\* noimprove_termination_criteria(next, max, epsilon)
noimprove_termination_criteria(max, epsilon) ==
    [kind |-> "noimprove", best_cost_m |-> GolMax, max_noimprove_m |-> max,
     iterations_left_m |-> max, total_iterations_m |-> 0, resets_m |-> 0,
     second_guess_m |-> 0, epsilon_m |-> epsilon]

\* threshold_termination_criteria(next, level, epsilon)
threshold_termination_criteria(level, epsilon) ==
    [kind |-> "threshold", level_m |-> level, epsilon_m |-> epsilon]

\* forever(): its constructor takes no successor.
forever == [kind |-> "forever"]

RECURSIVE invoke(_, _, _)

\* A plausible slip: answer "stop" once the chain has no successor left.
chain_call_stop(c, k, cost) ==
    IF k < Len(c) THEN invoke(c, k + 1, cost) ELSE [res |-> TRUE, chain |-> c]

\* termination_criteria_chain::operator(): if (next_m) return next_m->operator()(fs);
\* else return false.
chain_call(c, k, cost) ==
    IF k < Len(c) THEN invoke(c, k + 1, cost) ELSE [res |-> FALSE, chain |-> c]

\* A plausible slip: test the counter after decrementing it.
iteration_call_early(c, k, cost) ==
    LET d == [c EXCEPT ![k].iterations_m = @ - 1] IN
    IF d[k].iterations_m <= 0
    THEN [res |-> TRUE, chain |-> d]
    ELSE chain_call(d, k, cost)

\* iteration_termination_criteria::operator()
iteration_call(c, k, cost) ==
    IF c[k].iterations_m <= 0
    THEN [res |-> TRUE, chain |-> c]
    ELSE chain_call([c EXCEPT ![k].iterations_m = @ - 1], k, cost)

\* A plausible slip: count the invocation before the stop test.
noimprove_call_counts_stop(c, k, cost) ==
    LET node == c[k]
        seen == IF cost < node.best_cost_m - node.epsilon_m
                THEN [node EXCEPT !.best_cost_m = cost,
                                  !.second_guess_m = Max(@, node.max_noimprove_m
                                                            - node.iterations_left_m),
                                  !.iterations_left_m = node.max_noimprove_m,
                                  !.resets_m = @ + 1]
                ELSE node
        counted == [seen EXCEPT !.total_iterations_m = @ + 1]
    IN  IF counted.iterations_left_m <= 0
        THEN [res |-> TRUE, chain |-> [c EXCEPT ![k] = counted]]
        ELSE chain_call([c EXCEPT ![k] = [counted EXCEPT !.iterations_left_m = @ - 1]],
                        k, cost)

\* A plausible slip: an improvement does not restore iterations_left_m.
noimprove_call_norestore(c, k, cost) ==
    LET node == c[k]
        seen == IF cost < node.best_cost_m - node.epsilon_m
                THEN [node EXCEPT !.best_cost_m = cost,
                                  !.second_guess_m = Max(@, node.max_noimprove_m
                                                            - node.iterations_left_m),
                                  !.resets_m = @ + 1]
                ELSE node
    IN  IF seen.iterations_left_m <= 0
        THEN [res |-> TRUE, chain |-> [c EXCEPT ![k] = seen]]
        ELSE chain_call([c EXCEPT ![k] = [seen EXCEPT !.total_iterations_m = @ + 1,
                                                      !.iterations_left_m = @ - 1]],
                        k, cost)

\* noimprove_termination_criteria::operator()
noimprove_call(c, k, cost) ==
    LET node == c[k]
        seen == IF cost < node.best_cost_m - node.epsilon_m
                THEN [node EXCEPT !.best_cost_m = cost,
                                  !.second_guess_m = Max(@, node.max_noimprove_m
                                                            - node.iterations_left_m),
                                  !.iterations_left_m = node.max_noimprove_m,
                                  !.resets_m = @ + 1]
                ELSE node
    IN  IF seen.iterations_left_m <= 0
        THEN [res |-> TRUE, chain |-> [c EXCEPT ![k] = seen]]
        ELSE chain_call([c EXCEPT ![k] = [seen EXCEPT !.total_iterations_m = @ + 1,
                                                      !.iterations_left_m = @ - 1]],
                        k, cost)

\* A plausible slip: ask the successor first.
threshold_call_after(c, k, cost) ==
    LET r == chain_call(c, k, cost) IN
    IF cost < c[k].level_m + c[k].epsilon_m THEN [res |-> TRUE, chain |-> r.chain] ELSE r

\* threshold_termination_criteria::operator()
threshold_call(c, k, cost) ==
    IF cost < c[k].level_m + c[k].epsilon_m
    THEN [res |-> TRUE, chain |-> c]
    ELSE chain_call(c, k, cost)

\* forever::operator(): return false.
forever_call(c, k, cost) == [res |-> FALSE, chain |-> c]

\* The virtual call next_m->operator()(fs) on the k-th criterion.
invoke(c, k, cost) ==
    CASE c[k].kind = "iteration" -> iteration_call(c, k, cost)
      [] c[k].kind = "noimprove" -> noimprove_call(c, k, cost)
      [] c[k].kind = "threshold" -> threshold_call(c, k, cost)
      [] c[k].kind = "forever" -> forever_call(c, k, cost)

RECURSIVE reset(_, _)

\* termination_criteria_chain::reset(): if (next_m) next_m->reset();
chain_reset(c, k) == IF k < Len(c) THEN reset(c, k + 1) ELSE c

\* A plausible slip: restore the counter and forget the successor.
iteration_reset_alone(c, k) == [c EXCEPT ![k].iterations_m = c[k].max_m]

\* iteration_termination_criteria::reset()
iteration_reset(c, k) == chain_reset([c EXCEPT ![k].iterations_m = c[k].max_m], k)

\* noimprove_termination_criteria::reset()
noimprove_reset(c, k) ==
    chain_reset([c EXCEPT ![k].iterations_left_m = c[k].max_noimprove_m,
                          ![k].second_guess_m = 0,
                          ![k].total_iterations_m = 0,
                          ![k].resets_m = 0,
                          ![k].best_cost_m = GolMax], k)

\* threshold_termination_criteria::reset()
threshold_reset(c, k) == chain_reset(c, k)

\* forever::reset()
forever_reset(c, k) == chain_reset(c, k)

\* The virtual call next_m->reset() on the k-th criterion.
reset(c, k) ==
    CASE c[k].kind = "iteration" -> iteration_reset(c, k)
      [] c[k].kind = "noimprove" -> noimprove_reset(c, k)
      [] c[k].kind = "threshold" -> threshold_reset(c, k)
      [] c[k].kind = "forever" -> forever_reset(c, k)

-----------------------------------------------------------------------------
(* The chains under study and the operations on them *)

\* Tolerances, in units of the cost resolution.
Epsilons == {0, 1}

\* The criteria whose constructor accepts a successor.
Chainable ==
    {iteration_termination_criteria(max) : max \in 0..MaxIter}
        \cup {noimprove_termination_criteria(max, e) : max \in 0..MaxIter, e \in Epsilons}
        \cup {threshold_termination_criteria(level, e) : level \in 1..MaxCost, e \in Epsilons}

RECURSIVE ChainsOf(_)
ChainsOf(len) ==
    IF len = 1
    THEN {<<c>> : c \in Chainable \cup {forever}}
    ELSE {<<c>> \o rest : c \in Chainable, rest \in ChainsOf(len - 1)}

Chains == UNION {ChainsOf(len) : len \in 1..MaxChain}

NoCall == [op |-> "construct", cost |-> 0, res |-> FALSE, fres |-> FALSE,
           before |-> <<>>, afterReset |-> FALSE]

\* Does this invocation with this cost improve on what the criterion tracks?
Improves(node, cost) ==
    node.kind = "noimprove" /\ cost < node.best_cost_m - node.epsilon_m

InitChain ==
    /\ chain \in Chains
    /\ fresh = chain
    /\ built = chain
    /\ tlast = NoCall
    /\ calls = 0
    /\ streak = 0

Invoke ==
    \E cost \in 0..MaxCost :
        LET r == invoke(chain, 1, cost)
            f == invoke(fresh, 1, cost)
        IN  /\ calls < MaxCalls
            /\ chain' = r.chain
            /\ fresh' = f.chain
            /\ tlast' = [op |-> "invoke", cost |-> cost, res |-> r.res, fres |-> f.res,
                         before |-> chain, afterReset |-> tlast.afterReset]
            /\ calls' = calls + 1
            /\ streak' = IF Improves(chain[1], cost) THEN 0 ELSE streak + 1
            /\ UNCHANGED <<objVars, apiVars, built, permVars, saVars>>

Reset ==
    /\ chain' = reset(chain, 1)
    /\ fresh' = built
    /\ tlast' = [op |-> "reset", cost |-> 0, res |-> FALSE, fres |-> FALSE,
                 before |-> chain, afterReset |-> TRUE]
    /\ calls' = 0
    /\ streak' = 0
    /\ UNCHANGED <<objVars, apiVars, built, permVars, saVars>>

-----------------------------------------------------------------------------
(* Cooling schedules *)

\* The alpha values given to exponential_cooling, as fractions num / den:
\* -1, -1/2, 0, 1/2, 1 and 3/2.
Alphas == {[num |-> a, den |-> 2] : a \in (-2)..3}

\* exponential_cooling(alpha): throws when alpha >= 1, else factor_m = alpha.
exponential_cooling(alpha) ==
    IF alpha.num >= alpha.den
    THEN [thrown |-> "runtime_error", what |-> "alpha must be < 1"]
    ELSE [thrown |-> "none", kind |-> "exponential", factor_m |-> alpha]

\* linear_cooling(delta): throws when delta <= 0, else decrement_m = delta.
linear_cooling(delta) ==
    IF delta <= 0
    THEN [thrown |-> "runtime_error", what |-> "delta must be > 0"]
    ELSE [thrown |-> "none", kind |-> "linear", decrement_m |-> delta]

\* A user-defined abstract_cooling_schedule.
custom_cooling == [thrown |-> "none", kind |-> "custom"]

\* linear_cooling::operator(): std::max(0.0, temp - decrement_m).
linear_cooling_call(sch, temp) == Max(0, temp - sch.decrement_m)

\* The values cooling_schedule_m(current_temp_m, working) can return: the
\* user's operator() is free to return any temperature, negative ones included.
cooling_schedule_call(sch, temp) ==
    IF sch.kind = "linear" THEN {linear_cooling_call(sch, temp)} ELSE (-1)..MaxTemp

-----------------------------------------------------------------------------
(* The best-ever recorder *)

\* A recorder holding the caller's template: best cost +infinity.
best_ever_recorder(template) == [best_cost |-> GolMax, best |-> template]

\* A plausible slip: accept ties as well.
best_ever_accept_ties(rec, s) ==
    IF s.cost <= rec.best_cost
    THEN [res |-> TRUE, rec |-> [best_cost |-> s.cost, best |-> copy_from(rec.best, s)]]
    ELSE [res |-> FALSE, rec |-> rec]

\* accept(sol): when strictly better than the stored best, copy_from and true.
best_ever_accept(rec, s) ==
    IF s.cost < rec.best_cost
    THEN [res |-> TRUE, rec |-> [best_cost |-> s.cost, best |-> copy_from(rec.best, s)]]
    ELSE [res |-> FALSE, rec |-> rec]

\* The costs of the solutions a caller offers: those of scenario S5.
OfferCosts == {7, 8, 9, 10, 12}

\* The solutions a caller offers: evaluable solutions of size 2 with a scripted cost.
OfferedSolutions == {[pi |-> p, cost |-> c] : p \in Arrangements[2], c \in OfferCosts}

\* The caller offers a solution: recorder.accept(sol).
Offer ==
    \E s \in OfferedSolutions :
        LET r == best_ever_accept(recorder, s) IN
        /\ Len(offered) < MaxOffers
        /\ recorder' = r.rec
        /\ offered' = Append(offered, s)
        /\ answers' = Append(answers, [res |-> r.res, best_cost |-> r.rec.best_cost])
        /\ UNCHANGED <<objVars, permVars, chainVars, cfg, current_temp_m, moves_m, pc, movit,
                       actual_cost, events, g, api>>

-----------------------------------------------------------------------------
(* Full neighborhoods *)

\* The inner loop of swap_full_neighborhood's constructor from jj on; fuel is
\* the number of moves it may still push before it counts as running away.
RECURSIVE swap_full_inner(_, _, _, _, _)
swap_full_inner(sz, ii, jj, moves, fuel) ==
    IF jj = sz THEN [ok |-> TRUE, moves |-> moves, fuel |-> fuel]
    ELSE IF fuel = 0 THEN [ok |-> FALSE, moves |-> moves, fuel |-> fuel]
    ELSE swap_full_inner(sz, ii, jj + 1, Append(moves, swap_elements(ii, jj)), fuel - 1)

\* The outer loop of swap_full_neighborhood's constructor from ii on.
RECURSIVE swap_full_outer(_, _, _, _)
swap_full_outer(sz, ii, moves, fuel) ==
    IF ii = sz - 1 THEN [outcome |-> "ok", moves |-> moves]
    ELSE LET r == swap_full_inner(sz, ii, ii + 1, moves, fuel) IN
         IF r.ok THEN swap_full_outer(sz, ii + 1, r.moves, r.fuel)
         ELSE [outcome |-> "runaway", moves |-> r.moves]

\* swap_full_neighborhood(size)
swap_full_neighborhood(sz) == swap_full_outer(sz, 0, <<>>, LoopCap)

\* A plausible slip: no test of ii against jj.
RECURSIVE invert_full_inner_diagonal(_, _, _, _, _)
invert_full_inner_diagonal(sz, ii, jj, moves, fuel) ==
    IF jj = sz THEN [ok |-> TRUE, moves |-> moves, fuel |-> fuel]
    ELSE IF fuel = 0 THEN [ok |-> FALSE, moves |-> moves, fuel |-> fuel]
    ELSE invert_full_inner_diagonal(sz, ii, jj + 1,
                                    Append(moves, invert_subsequence(ii, jj)), fuel - 1)

\* The inner loop of invert_full_neighborhood's constructor from jj on.
RECURSIVE invert_full_inner(_, _, _, _, _)
invert_full_inner(sz, ii, jj, moves, fuel) ==
    IF jj = sz THEN [ok |-> TRUE, moves |-> moves, fuel |-> fuel]
    ELSE IF fuel = 0 THEN [ok |-> FALSE, moves |-> moves, fuel |-> fuel]
    ELSE IF ii # jj
         THEN invert_full_inner(sz, ii, jj + 1,
                                Append(moves, invert_subsequence(ii, jj)), fuel - 1)
         ELSE invert_full_inner(sz, ii, jj + 1, moves, fuel - 1)

\* The outer loop of invert_full_neighborhood's constructor from ii on.
RECURSIVE invert_full_outer(_, _, _, _)
invert_full_outer(sz, ii, moves, fuel) ==
    IF ii = sz THEN [outcome |-> "ok", moves |-> moves]
    ELSE LET r == invert_full_inner(sz, ii, 0, moves, fuel) IN
         IF r.ok THEN invert_full_outer(sz, ii + 1, r.moves, r.fuel)
         ELSE [outcome |-> "runaway", moves |-> r.moves]

\* invert_full_neighborhood(size)
invert_full_neighborhood(sz) == invert_full_outer(sz, 0, <<>>, LoopCap)

\* refresh(sol) of the full neighborhoods: the move list stays as it is.
full_refresh(moves) == moves

-----------------------------------------------------------------------------
(* simulated_annealing::search() *)

\* move::evaluate, dispatched on the move's class.
move_evaluate(ck, m, s) ==
    IF m.kind = "swap" THEN swap_elements_evaluate(ck, m, s)
    ELSE invert_subsequence_evaluate(ck, m, s)

\* mana_move::apply, dispatched on the move's class.
move_apply(ck, m, s) ==
    IF m.kind = "swap" THEN swap_elements_apply(ck, m, s)
    ELSE invert_subsequence_apply(ck, m, s)

\* A plausible slip: test the temperature first, and the chain only above the floor.
loop_condition_temp_first(c, cost, temp, stop) ==
    IF temp > stop
    THEN [go |-> ~invoke(c, 1, cost).res, chain |-> invoke(c, 1, cost).chain]
    ELSE [go |-> FALSE, chain |-> c]

\* A plausible slip: test the temperature only.
loop_condition_temp_only(c, cost, temp, stop) ==
    [go |-> temp > stop, chain |-> c]

\* The loop condition of search(): the chain is asked first and its answer
\* short-circuits the temperature test.
loop_condition(c, cost, temp, stop) ==
    LET r == invoke(c, 1, cost) IN
    [go |-> ~r.res /\ temp > stop, chain |-> r.chain]

\* A plausible slip: leave an improving move to the draw as well.
metropolis_draw_all(delta, temp) ==
    IF temp > 0 THEN {TRUE, FALSE} ELSE {temp < 0}

\* The outcomes of delta < 0 || gen() < exp(-delta / (K_m * current_temp_m))
\* over the draws gen() of [0, 1): at a positive temperature exp(0) = 1 beats
\* every draw and a positive delta is left to the draw; at temperature 0 the
\* exponential is 0 (or NaN for delta = 0) and no draw is below it; at a
\* negative temperature the exponential is at least 1.
metropolis(delta, temp) ==
    IF delta < 0 THEN {TRUE}
    ELSE IF temp > 0 THEN (IF delta = 0 THEN {TRUE} ELSE {TRUE, FALSE})
    ELSE {temp < 0}

\* notify() with step_m = step: each observer sees the step and the working solution.
notify(evs, step, s) == Append(evs, [step |-> step, pi |-> s.pi, cost |-> s.cost])

\* A plausible slip: make the move without offering the solution to the recorder.
accept_move_unrecorded(ck, m, s, rec, evs) ==
    LET a == move_apply(ck, m, s)
    IN  [sol |-> a, rec |-> rec, accepted |-> FALSE, events |-> notify(evs, "MOVE_MADE", a)]

\* A plausible slip: offer the working solution before the move is applied.
accept_move_offer_first(ck, m, s, rec, evs) ==
    LET a == move_apply(ck, m, s)
        r == best_ever_accept(rec, s)
        e1 == IF r.res THEN notify(evs, "IMPROVEMENT_MADE", a) ELSE evs
    IN  [sol |-> a, rec |-> r.rec, accepted |-> r.res, events |-> notify(e1, "MOVE_MADE", a)]

\* A plausible slip: announce the move before applying it.
accept_move_notify_first(ck, m, s, rec, evs) ==
    LET a == move_apply(ck, m, s)
        r == best_ever_accept(rec, a)
        e1 == IF r.res THEN notify(evs, "IMPROVEMENT_MADE", s) ELSE evs
    IN  [sol |-> a, rec |-> r.rec, accepted |-> r.res, events |-> notify(e1, "MOVE_MADE", s)]

\* The body of the acceptance branch: apply the move, offer the working
\* solution to the recorder, notify IMPROVEMENT_MADE when it accepted, then
\* notify MOVE_MADE.
accept_move(ck, m, s, rec, evs) ==
    LET a == move_apply(ck, m, s)
        r == best_ever_accept(rec, a)
        e1 == IF r.res THEN notify(evs, "IMPROVEMENT_MADE", a) ELSE evs
    IN  [sol |-> a, rec |-> r.rec, accepted |-> r.res, events |-> notify(e1, "MOVE_MADE", a)]

\* current_temp_m = cooling_schedule_m(current_temp_m, working)
assign_temp(t) == t

\* The counters of a search that has not entered its loop.
NoSearch ==
    [iters |-> 0, refreshes |-> 0, cools |-> 0, low |-> GolMax, applied |-> 0,
     accepted |-> FALSE, returned |-> 0, delta |-> 0, draw |-> "none",
     lowAccepted |-> GolMax]

\* The stop temperatures: the default, just above 0, and a negative one.
StopTemps == {0, -2}

Schedules == {linear_cooling(d) : d \in 1..MaxTemp} \cup {custom_cooling}

\* The chains a search is given: forever, an iteration cap, or an iteration cap
\* followed by a cost threshold.
SearchChains ==
    {<<forever>>}
    \cup {<<iteration_termination_criteria(m)>> : m \in 0..MaxIter}
    \cup {<<iteration_termination_criteria(m), threshold_termination_criteria(l, e)>> :
            m \in 1..MaxIter, l \in 0..MaxCost, e \in Epsilons}

\* The neighborhoods a search is given for a problem of size n: every swap,
\* every inversion, or none (the full swap neighborhood of size 1 is empty).
Neighborhoods(n) ==
    {swap_full_neighborhood(n).moves, invert_full_neighborhood(n).moves,
     swap_full_neighborhood(1).moves}

\* What cop holds before any operation on objs.
NoCop ==
    [op |-> "none", target |-> 0, source |-> 0, outcome |-> "none", before |-> <<>>,
     copied |-> FALSE]

\* No solution objects, no storage, no neighborhood.
ObjIdle ==
    /\ objs = <<>>
    /\ heap = <<>>
    /\ cop = NoCop
    /\ nbh = [n |-> 0, moves_m |-> <<>>]

\* A solution of size 2 as constructed, on which nothing operates.
PermIdle ==
    /\ pi_m = permutation_problem(2).pi
    /\ cost_m = permutation_problem(2).cost
    /\ pre = permutation_problem(2)
    /\ costKind = "linear"
    /\ updated = FALSE
    /\ last = NoOp

\* A chain that is never invoked.
ChainIdle ==
    /\ chain = <<forever>>
    /\ fresh = chain
    /\ built = chain
    /\ tlast = NoCall
    /\ calls = 0
    /\ streak = 0

\* Nothing offered to a recorder and no call logged.
ApiIdle ==
    /\ offered = <<>>
    /\ answers = <<>>
    /\ api = <<>>

\* A constructed simulated_annealing over a shuffled working solution, a fresh
\* chain, a recorder over a template of the same size, before search().
InitSearch ==
    /\ costKind \in CostKinds
    /\ \E n \in 2..(MaxN - 1) :
        /\ \E s \in random_shuffle(costKind, permutation_problem(n)) :
            /\ pi_m = s.pi
            /\ cost_m = s.cost
            /\ pre = s
        /\ moves_m \in Neighborhoods(n)
        /\ recorder = best_ever_recorder(permutation_problem(n))
    /\ updated = TRUE
    /\ last = NoOp
    /\ chain \in SearchChains
    /\ fresh = chain
    /\ built = chain
    /\ tlast = NoCall
    /\ calls = 0
    /\ streak = 0
    /\ cfg \in [starting_temp : 1..MaxTemp, stop_temp : StopTemps, sched : Schedules]
    /\ current_temp_m = 0
    /\ pc = "idle"
    /\ movit = 1
    /\ actual_cost = 0
    /\ events = <<>>
    /\ g = NoSearch
    /\ ApiIdle
    /\ ObjIdle

\* The outer iterations a search is followed for: a linear schedule brings the
\* temperature to 0 within starting_temp_m steps of 1 or more, which ends the
\* search when stop_temp_m is not negative; any other search is cut at MaxOuter.
OuterCap ==
    IF cfg.sched.kind = "linear" /\ cfg.stop_temp >= 0 THEN cfg.starting_temp ELSE MaxOuter

\* The entry of search(): current_temp_m = starting_temp_m.
SearchStart ==
    /\ pc = "idle"
    /\ current_temp_m' = cfg.starting_temp
    /\ pc' = "check"
    /\ g' = [NoSearch EXCEPT !.low = cost_m]
    /\ UNCHANGED <<objVars, apiVars, permVars, chainVars, cfg, moves_m, recorder, movit, actual_cost, events>>

\* The loop condition, and when it holds the head of the loop body: actual_cost,
\* refresh(working), movit = begin().
LoopCheck ==
    LET c == loop_condition(chain, cost_m, current_temp_m, cfg.stop_temp) IN
    /\ pc = "check"
    /\ c.go => g.iters < OuterCap
    /\ chain' = c.chain
    /\ calls' = calls + 1
    /\ IF c.go
       THEN /\ pc' = "scan"
            /\ actual_cost' = cost_m
            /\ moves_m' = full_refresh(moves_m)
            /\ movit' = 1
            /\ pre' = sol
            /\ events' = <<>>
            /\ g' = [g EXCEPT !.iters = @ + 1, !.refreshes = @ + 1, !.applied = 0,
                              !.accepted = FALSE, !.draw = "none"]
       ELSE /\ pc' = "done"
            /\ UNCHANGED <<objVars, apiVars, actual_cost, moves_m, movit, pre, events, g>>
    /\ UNCHANGED <<objVars, apiVars, pi_m, cost_m, costKind, updated, last, fresh, built, tlast, streak,
                   cfg, current_temp_m, recorder>>

\* The move at movit is evaluated and accepted: apply, recorder, notifications, break.
AcceptMove ==
    /\ pc = "scan"
    /\ movit <= Len(moves_m)
    /\ LET m == moves_m[movit]
           cost == move_evaluate(costKind, m, sol)
           delta == cost - actual_cost
           a == accept_move(costKind, m, sol, recorder, events)
       IN  /\ TRUE \in metropolis(delta, current_temp_m)
           /\ pi_m' = a.sol.pi
           /\ cost_m' = a.sol.cost
           /\ last' = [op |-> IF m.kind = "swap" THEN "swap_elements" ELSE "invert_subsequence",
                     a |-> m.p1, b |-> m.p2, eval |-> cost]
           /\ recorder' = a.rec
           /\ events' = a.events
           /\ g' = [g EXCEPT !.applied = @ + 1, !.accepted = a.accepted, !.delta = delta,
                             !.draw = "accept", !.low = Min(@, a.sol.cost),
                             !.lowAccepted = Min(@, a.sol.cost)]
           /\ pc' = "cool"
    /\ UNCHANGED <<objVars, apiVars, costKind, updated, pre, chainVars, cfg, current_temp_m, moves_m,
                   movit, actual_cost>>

\* The move at movit is evaluated and not accepted: ++movit.
RejectMove ==
    /\ pc = "scan"
    /\ movit <= Len(moves_m)
    /\ LET m == moves_m[movit]
           cost == move_evaluate(costKind, m, sol)
           delta == cost - actual_cost
       IN  /\ FALSE \in metropolis(delta, current_temp_m)
           /\ g' = [g EXCEPT !.delta = delta, !.draw = "reject"]
    /\ movit' = movit + 1
    /\ UNCHANGED <<objVars, apiVars, permVars, chainVars, cfg, current_temp_m, moves_m, recorder, pc,
                   actual_cost, events>>

\* A plausible slip: cool only after a move was made.
ScanEnd_skip_cooling ==
    /\ pc = "scan"
    /\ movit > Len(moves_m)
    /\ pc' = "check"
    /\ UNCHANGED <<objVars, apiVars, permVars, chainVars, cfg, current_temp_m, moves_m, recorder, movit,
                   actual_cost, events, g>>

\* movit == end(): the scan ends without a move.
ScanEnd ==
    /\ pc = "scan"
    /\ movit > Len(moves_m)
    /\ pc' = "cool"
    /\ UNCHANGED <<objVars, apiVars, permVars, chainVars, cfg, current_temp_m, moves_m, recorder, movit,
                   actual_cost, events, g>>

\* The end of the loop body: the cooling schedule gives the next temperature.
Cool ==
    /\ pc = "cool"
    /\ \E t \in cooling_schedule_call(cfg.sched, current_temp_m) :
        /\ current_temp_m' = assign_temp(t)
        /\ g' = [g EXCEPT !.cools = @ + 1, !.returned = t]
    /\ pc' = "check"
    /\ UNCHANGED <<objVars, apiVars, permVars, chainVars, cfg, moves_m, recorder, movit, actual_cost, events>>

\* An object that is not searching.
SearchIdle ==
    /\ cfg = [starting_temp |-> 1, stop_temp |-> 0, sched |-> linear_cooling(1)]
    /\ current_temp_m = 0
    /\ moves_m = <<>>
    /\ recorder = best_ever_recorder(permutation_problem(2))
    /\ pc = "idle"
    /\ movit = 1
    /\ actual_cost = 0
    /\ events = <<>>
    /\ g = NoSearch

-----------------------------------------------------------------------------
(* Constructor calls and moves on solutions of another class *)

\* A schedule constructor was called: the log keeps the argument and what came of it.
NewExponentialCooling ==
    \E alpha \in Alphas :
        /\ Len(api) < MaxApi
        /\ api' = Append(api, [call |-> "exponential_cooling", arg |-> alpha,
                               outcome |-> exponential_cooling(alpha).thrown])
        /\ UNCHANGED <<objVars, permVars, chainVars, saVars, offered, answers>>

NewLinearCooling ==
    \E delta \in (-MaxTemp)..MaxTemp :
        /\ Len(api) < MaxApi
        /\ api' = Append(api, [call |-> "linear_cooling", arg |-> delta,
                               outcome |-> linear_cooling(delta).thrown])
        /\ UNCHANGED <<objVars, permVars, chainVars, saVars, offered, answers>>

\* What a caller sees of a constructor: it returns, or its loop never meets
\* the exit test and pushes moves until the allocation fails or for good.
constructor_outcomes(r) ==
    IF r.outcome = "ok" THEN {"ok"} ELSE {"bad_alloc", "no_return"}

\* A neighborhood constructor was called with a size, small ones included.
NewSwapFullNeighborhood ==
    \E sz \in (-1)..MaxN :
        LET r == swap_full_neighborhood(sz) IN
        /\ Len(api) < MaxApi
        /\ \E o \in constructor_outcomes(r) :
            api' = Append(api, [call |-> "swap_full_neighborhood", arg |-> sz,
                                   outcome |-> o, moves |-> r.moves])
        /\ UNCHANGED <<objVars, permVars, chainVars, saVars, offered, answers>>

NewInvertFullNeighborhood ==
    \E sz \in (-1)..MaxN :
        LET r == invert_full_neighborhood(sz) IN
        /\ Len(api) < MaxApi
        /\ \E o \in constructor_outcomes(r) :
            api' = Append(api, [call |-> "invert_full_neighborhood", arg |-> sz,
                                   outcome |-> o, moves |-> r.moves])
        /\ UNCHANGED <<objVars, permVars, chainVars, saVars, offered, answers>>

\* refresh(sol) was called on a full neighborhood of a size from 2 up.
RefreshFull ==
    \E sz \in 2..MaxN :
        \E r \in {swap_full_neighborhood(sz), invert_full_neighborhood(sz)} :
            /\ Len(api) < MaxApi
            /\ api' = Append(api, [call |-> "refresh", arg |-> sz, outcome |-> "ok",
                                   moves |-> r.moves, refreshed |-> full_refresh(r.moves)])
            /\ UNCHANGED <<objVars, permVars, chainVars, saVars, offered, answers>>

\* The solutions a move is called on: a permutation_problem, and an object of
\* another class derived from evaluable_solution, with data of its own.
AnySolutions ==
    {[class |-> "permutation_problem", sol |-> update_cost("linear", permutation_problem(2))],
     [class |-> "other", sol |-> [data |-> 0]]}

\* What the build can make of a member access through
\* static_cast<permutation_problem &>(s) on an object of another class: the
\* call crashes, or it returns some value, and either way the memory of the
\* object is left alone or overwritten. No exception is constructed anywhere.
undefined_behaviour(s) ==
    {[outcome |-> o, value |-> v, after |-> a] :
        o \in {"crash", "returned"},
        v \in {0, GolMax},
        a \in {s, [s EXCEPT !.sol = [data |-> 1]]}}

\* move::evaluate on any solution: the static_cast is unchecked.
evaluate_any(ck, m, s) ==
    IF s.class = "permutation_problem"
    THEN {[outcome |-> "returned", value |-> move_evaluate(ck, m, s.sol), after |-> s]}
    ELSE undefined_behaviour(s)

\* move::apply on any solution: the static_cast is unchecked.
apply_any(ck, m, s) ==
    IF s.class = "permutation_problem"
    THEN {[outcome |-> "returned", value |-> 0,
           after |-> [s EXCEPT !.sol = move_apply(ck, m, s.sol)]]}
    ELSE undefined_behaviour(s)

\* The moves called: one of each class.
AnyMoves == {swap_elements(0, 1), invert_subsequence(0, 1)}

MoveEvaluate ==
    \E m \in AnyMoves, s \in AnySolutions :
        \E r \in evaluate_any("linear", m, s) :
            /\ Len(api) < MaxApi
            /\ api' = Append(api, [call |-> "evaluate", arg |-> m, before |-> s,
                                   outcome |-> r.outcome, value |-> r.value,
                                   after |-> r.after])
            /\ UNCHANGED <<objVars, permVars, chainVars, saVars, offered, answers>>

MoveApply ==
    \E m \in AnyMoves, s \in AnySolutions :
        \E r \in apply_any("linear", m, s) :
            /\ Len(api) < MaxApi
            /\ api' = Append(api, [call |-> "apply", arg |-> m, before |-> s,
                                   outcome |-> r.outcome, value |-> r.value,
                                   after |-> r.after])
            /\ UNCHANGED <<objVars, permVars, chainVars, saVars, offered, answers>>

-----------------------------------------------------------------------------
(* Two permutation problems and copy_from between them *)

\* The value of a permutation_problem object: its vector, read from the storage
\* it owns, and its cost.
Deref(o) == [pi |-> heap[o.pi], cost |-> o.cost]

\* A plausible slip: share the source's storage instead of copying it.
vector_assign_alias(h, dst, src) == [heap |-> h, addr |-> src]

\* std::vector's copy assignment pi_m = o.pi_m: the elements of the source are
\* copied into the storage of the destination, which stays its own.
vector_assign(h, dst, src) == [heap |-> [h EXCEPT ![dst] = h[src]], addr |-> dst]

\* The objects that can be handed to copy_from: the two permutation problems
\* and a copyable of another class.
Sources == {1, 2, 3}

\* Two permutation problems, shuffled, each with storage of its own, and a
\* copyable object of another class.
InitObjs ==
    /\ costKind \in CostKinds
    /\ \E n1 \in 2..(MaxN - 1), n2 \in 2..(MaxN - 1) :
        \E s1 \in random_shuffle(costKind, permutation_problem(n1)),
           s2 \in random_shuffle(costKind, permutation_problem(n2)) :
            /\ heap = <<s1.pi, s2.pi>>
            /\ objs = <<[class |-> "permutation_problem", pi |-> 1, cost |-> s1.cost],
                        [class |-> "permutation_problem", pi |-> 2, cost |-> s2.cost],
                        [class |-> "other", pi |-> 0, cost |-> 0]>>
    /\ cop = NoCop
    /\ nbh = [n |-> 0, moves_m |-> <<>>]

\* objs[t].copy_from(objs[s]): the dynamic_cast throws std::bad_cast for an
\* object of another class; otherwise pi_m and cost_m are assigned.
CopyFromObj ==
    \E t \in {1, 2}, s \in Sources :
        IF objs[s].class = "permutation_problem"
        THEN LET v == copy_from(Deref(objs[t]), Deref(objs[s]))
                 r == vector_assign(heap, objs[t].pi, objs[s].pi)
             IN  /\ heap' = r.heap
                 /\ objs' = [objs EXCEPT ![t].pi = r.addr, ![t].cost = v.cost]
                 /\ cop' = [op |-> "copy_from", target |-> t, source |-> s,
                            outcome |-> "ok", before |-> Deref(objs[s]),
                            copied |-> cop.copied \/ t # s]
                 /\ UNCHANGED <<permVars, chainVars, saVars, apiVars, nbh>>
        ELSE /\ cop' = [op |-> "copy_from", target |-> t, source |-> s,
                        outcome |-> "bad_cast", before |-> Deref(objs[t]),
                        copied |-> cop.copied]
             /\ UNCHANGED <<pi_m, cost_m, updated, pre, last>>
             /\ UNCHANGED <<costKind, chainVars, saVars, apiVars, objs, heap, nbh>>

\* objs[x].apply_swap(i, j); the history keeps the value of the other object.
ApplySwapObj ==
    \E x \in {1, 2} :
        \E i \in DOMAIN heap[objs[x].pi], j \in DOMAIN heap[objs[x].pi] :
            LET v == apply_swap(costKind, Deref(objs[x]), i, j) IN
            /\ heap' = [heap EXCEPT ![objs[x].pi] = v.pi]
            /\ objs' = [objs EXCEPT ![x].cost = v.cost]
            /\ cop' = [op |-> "apply_swap", target |-> x, source |-> x,
                       outcome |-> "ok", before |-> Deref(objs[3 - x]),
                       copied |-> cop.copied]
            /\ UNCHANGED <<permVars, chainVars, saVars, apiVars, nbh>>

-----------------------------------------------------------------------------
(* swap_neighborhood: a stochastic subset of the swaps *)

\* int_range(rng, size): a draw from [0, size).
int_range(sz) == 0..(sz - 1)

\* A plausible slip: take the second draw as it comes.
randomize_move_once(sz) ==
    {[kind |-> "swap", p1 |-> Min(d[1], d[2]), p2 |-> Max(d[1], d[2])] :
        d \in int_range(sz) \X int_range(sz)}

\* randomize_move(m, size): two draws, the second repeated while it equals the
\* first; then m.p1 = min and m.p2 = max. The values m can be left with.
randomize_move(sz) ==
    {[kind |-> "swap", p1 |-> Min(d[1], d[2]), p2 |-> Max(d[1], d[2])] :
        d \in {e \in int_range(sz) \X int_range(sz) : e[1] # e[2]}}

\* swap_neighborhood(rng, moves): n = moves, and n times
\* moves_m.push_back(new swap_elements(0, 0)); the objects get the addresses 1..n.
swap_neighborhood(moves) ==
    [nbh |-> [n |-> moves, moves_m |-> [a \in 1..moves |-> a], refreshes |-> 0],
     heap |-> [a \in 1..moves |-> swap_elements(0, 0)]]

\* A working solution of size 2 or more and a swap_neighborhood of up to MaxMoves moves.
NeighborhoodInit ==
    /\ ChainIdle
    /\ SearchIdle
    /\ ApiIdle
    /\ \E n \in 2..(MaxN - 1) :
        /\ pi_m = permutation_problem(n).pi
        /\ cost_m = permutation_problem(n).cost
        /\ pre = permutation_problem(n)
    /\ costKind = "linear"
    /\ updated = FALSE
    /\ last = NoOp
    /\ \E k \in 0..MaxMoves :
        /\ nbh = swap_neighborhood(k).nbh
        /\ heap = swap_neighborhood(k).heap
    /\ objs = <<>>
    /\ cop = NoCop

\* refresh(working): each of the first n moves of moves_m is randomized in place.
RefreshSwapNeighborhood ==
    /\ nbh.refreshes < MaxCalls
    /\ \E f \in [1..nbh.n -> randomize_move(size(pi_m))] :
        heap' = [a \in DOMAIN heap |->
                    IF \E cnt \in 1..nbh.n : nbh.moves_m[cnt] = a
                    THEN f[CHOOSE cnt \in 1..nbh.n : nbh.moves_m[cnt] = a]
                    ELSE heap[a]]
    /\ nbh' = [nbh EXCEPT !.refreshes = @ + 1]
    /\ UNCHANGED <<permVars, chainVars, saVars, apiVars, objs, cop>>

-----------------------------------------------------------------------------
(* Identity of moves: operator== and hash() *)

RECURSIVE BitXor(_, _)
\* x ^ y on non-negative integers, bit by bit.
BitXor(x, y) ==
    IF x = 0 THEN y
    ELSE IF y = 0 THEN x
    ELSE (((x % 2) + (y % 2)) % 2) + 2 * BitXor(x \div 2, y \div 2)

\* hash() of either move: (p1) << 16 ^ (p2), the shift as a product by 2^16.
move_hash(m) == BitXor(m.p1 * 65536, m.p2)

\* change(from, to) of a swap_elements: min and max again.
swap_elements_change(m, from, to) ==
    [m EXCEPT !.p1 = Min(from, to), !.p2 = Max(from, to)]

\* change(from, to) of an invert_subsequence: stored as given.
invert_subsequence_change(m, from, to) ==
    [m EXCEPT !.p1 = from, !.p2 = to]

\* A plausible slip: compare the positions whatever the other move is.
swap_elements_equals_any(m, o) == m.p1 = o.p1 /\ m.p2 = o.p2

\* swap_elements::operator==: dynamic_cast of the other move to swap_elements;
\* bad_cast is caught and answers false.
swap_elements_equals(m, o) ==
    IF o.kind = "swap" THEN m.p1 = o.p1 /\ m.p2 = o.p2 ELSE FALSE

\* invert_subsequence::operator==: the same with a cast to invert_subsequence.
invert_subsequence_equals(m, o) ==
    IF o.kind = "invert" THEN m.p1 = o.p1 /\ m.p2 = o.p2 ELSE FALSE

\* m == o, dispatched on the class of m.
move_equals(m, o) ==
    IF m.kind = "swap" THEN swap_elements_equals(m, o)
    ELSE invert_subsequence_equals(m, o)

\* The positions a move can be given here.
Positions == 0..(MaxN - 1)

\* new swap_elements(from, to) or new invert_subsequence(from, to).
new_move(kind, from, to) ==
    IF kind = "swap" THEN swap_elements(from, to) ELSE invert_subsequence(from, to)

\* Two moves, swap_elements(0, 0) and invert_subsequence(0, 0); objs remembers
\* the pair each one was last given, cop the last call.
MoveInit ==
    /\ PermIdle
    /\ ChainIdle
    /\ SearchIdle
    /\ ApiIdle
    /\ heap = <<swap_elements(0, 0), invert_subsequence(0, 0)>>
    /\ objs = <<[from |-> 0, to |-> 0], [from |-> 0, to |-> 0]>>
    /\ cop = NoCop
    /\ nbh = [n |-> 0, moves_m |-> <<>>]

\* One of the two moves is replaced by a newly constructed one.
NewMove ==
    /\ \E x \in 1..2, kind \in {"swap", "invert"}, from \in Positions, to \in Positions :
        /\ heap' = [heap EXCEPT ![x] = new_move(kind, from, to)]
        /\ objs' = [objs EXCEPT ![x] = [from |-> from, to |-> to]]
        /\ cop' = [NoCop EXCEPT !.op = "new", !.target = x]
    /\ UNCHANGED <<permVars, chainVars, saVars, apiVars, nbh>>

\* change(from, to) on one of the two moves.
ChangeMove ==
    /\ \E x \in 1..2, from \in Positions, to \in Positions :
        /\ heap' = [heap EXCEPT ![x] =
                        IF @.kind = "swap" THEN swap_elements_change(@, from, to)
                        ELSE invert_subsequence_change(@, from, to)]
        /\ objs' = [objs EXCEPT ![x] = [from |-> from, to |-> to]]
        /\ cop' = [NoCop EXCEPT !.op = "change", !.target = x]
    /\ UNCHANGED <<permVars, chainVars, saVars, apiVars, nbh>>

-----------------------------------------------------------------------------
(* evaluate() as a call on a solution *)

\* A plausible slip: evaluate by applying the move and reading the cost.
evaluate_call_applied(ck, m, s) ==
    [ret |-> move_apply(ck, m, s).cost, s |-> move_apply(ck, m, s)]

\* m.evaluate(s): the value returned and the solution the call leaves. The
\* argument is a const reference and only cost_function() and evaluate_swap(),
\* both const, are called on it.
evaluate_call(ck, m, s) ==
    [ret |-> move_evaluate(ck, m, s), s |-> s]

\* m.evaluate(working) for a swap_elements or an invert_subsequence.
EvaluateMove ==
    \E kind \in {"swap", "invert"}, a \in DOMAIN pi_m, b \in DOMAIN pi_m :
        LET r == evaluate_call(costKind, new_move(kind, a, b), sol) IN
        /\ Becomes(r.s, IF kind = "swap" THEN "swap_elements_evaluate"
                                        ELSE "invert_subsequence_evaluate",
                   a, b, r.ret)
        /\ UNCHANGED <<objVars, apiVars, costKind, updated, chainVars, saVars>>

-----------------------------------------------------------------------------
(* search() with temperatures that are not whole numbers.  The temperatures   *)
(* are doubles: a double d with 0 <= d < 2 that is a multiple of 2^-55 is     *)
(* written [hi, lo], d = (hi * 2^28 + lo) * 2^-55.                             *)

\* 2^28: lo runs over 0..Limb-1.
Limb == 268435456

DoubleZero == [hi |-> 0, lo |-> 0]

\* The double nearest to 0.1: 3602879701896397 * 2^-55.
DoubleTenth == [hi |-> 13421772, lo |-> 214748365]

DoubleQuarter == [hi |-> 33554432, lo |-> 0]

DoubleHalf == [hi |-> 67108864, lo |-> 0]

DoubleOne == [hi |-> 134217728, lo |-> 0]

\* a > b on doubles.
double_gt(a, b) == a.hi > b.hi \/ (a.hi = b.hi /\ a.lo > b.lo)

\* The real number a - b, for a >= b.
exact_sub(a, b) ==
    IF a.lo >= b.lo THEN [hi |-> a.hi - b.hi, lo |-> a.lo - b.lo]
    ELSE [hi |-> a.hi - b.hi - 1, lo |-> a.lo + Limb - b.lo]

\* The real number a + b.
exact_add(a, b) ==
    IF a.lo + b.lo < Limb THEN [hi |-> a.hi + b.hi, lo |-> a.lo + b.lo]
    ELSE [hi |-> a.hi + b.hi + 1, lo |-> a.lo + b.lo - Limb]

RECURSIVE exact_times(_, _)
\* The real number a * k, k a natural number.
exact_times(a, k) == IF k = 0 THEN DoubleZero ELSE exact_add(a, exact_times(a, k - 1))

\* The spacing, in units of 2^-55, of the doubles around x: a double keeps 53
\* significant bits, so a number of 56, 55 or 54 bits loses its last 3, 2 or 1.
double_spacing(x) ==
    IF x.hi >= 134217728 THEN 8
    ELSE IF x.hi >= 67108864 THEN 4
    ELSE IF x.hi >= 33554432 THEN 2
    ELSE 1

\* The double nearest to the real number x, ties to the even neighbour.
round_to_double(x) ==
    LET u == double_spacing(x)
        r == x.lo % u
        q == x.lo - r
        up == (2 * r > u) \/ (2 * r = u /\ ((q \div u) % 2) = 1)
        lo2 == IF up THEN q + u ELSE q
    IN  IF lo2 = Limb THEN [hi |-> x.hi + 1, lo |-> 0] ELSE [hi |-> x.hi, lo |-> lo2]

\* The sign metropolis() looks at.
double_sign(x) == IF double_gt(x, DoubleZero) THEN 1 ELSE 0

\* linear_cooling(delta) for a double delta.
linear_cooling_double(delta) ==
    IF ~double_gt(delta, DoubleZero)
    THEN [thrown |-> "runtime_error", what |-> "delta must be > 0"]
    ELSE [thrown |-> "none", kind |-> "linear", decrement_m |-> delta]

\* linear_cooling::operator(): std::max(0.0, temp - decrement_m) in double arithmetic.
linear_cooling_call_double(sch, temp) ==
    IF double_gt(temp, sch.decrement_m)
    THEN round_to_double(exact_sub(temp, sch.decrement_m))
    ELSE DoubleZero

\* Whether temp - decrement_m needed no rounding.
subtraction_exact(sch, temp) ==
    double_gt(temp, sch.decrement_m) =>
        round_to_double(exact_sub(temp, sch.decrement_m)) = exact_sub(temp, sch.decrement_m)

\* A plausible slip: go on while the temperature is not below the floor.
loop_condition_double_ge(c, cost, temp, stop) ==
    LET r == invoke(c, 1, cost) IN
    [go |-> ~r.res /\ ~double_gt(stop, temp), chain |-> r.chain]

\* The loop condition of search() on double temperatures.
loop_condition_double(c, cost, temp, stop) ==
    LET r == invoke(c, 1, cost) IN
    [go |-> ~r.res /\ double_gt(temp, stop), chain |-> r.chain]

RECURSIVE scan_outcomes(_, _, _, _, _, _, _)
\* The for loop over the moves from movit = i on: each way the draws can fall
\* ends with the first accepted move applied, or with no move at all.
scan_outcomes(ck, moves, i, s, rec, actual, tsign) ==
    IF i > Len(moves)
    THEN {[sol |-> s, rec |-> rec, events |-> <<>>, applied |-> 0, movit |-> i,
           accepted |-> FALSE]}
    ELSE LET m == moves[i]
             delta == move_evaluate(ck, m, s) - actual
             a == accept_move(ck, m, s, rec, <<>>)
         IN  (IF TRUE \in metropolis(delta, tsign)
              THEN {[sol |-> a.sol, rec |-> a.rec, events |-> a.events, applied |-> 1,
                     movit |-> i, accepted |-> a.accepted]}
              ELSE {})
             \cup (IF FALSE \in metropolis(delta, tsign)
                   THEN scan_outcomes(ck, moves, i + 1, s, rec, actual, tsign)
                   ELSE {})

\* The temperatures a caller writes: 0, 0.5 and 1 to start from, 0 and 0.5 to
\* stop at, steps of 0.1 (the default of linear_cooling), 0.25 and 0.5.
StartTemps == {DoubleZero, DoubleHalf, DoubleOne}

FloorTemps == {DoubleZero, DoubleHalf}

Decrements == {DoubleTenth, DoubleQuarter, DoubleHalf}

\* The counters of a search on double temperatures: those of NoSearch, the
\* temperature last returned, and whether every subtraction so far was exact.
NoFloorSearch ==
    [iters |-> 0, refreshes |-> 0, cools |-> 0, moved |-> 0, returned |-> DoubleZero,
     exact |-> TRUE]

\* A constructed simulated_annealing with a linear schedule, before search().
InitFloor ==
    /\ costKind = "linear"
    /\ \E n \in 2..(MaxN - 1) :
        /\ \E s \in random_shuffle(costKind, permutation_problem(n)) :
            /\ pi_m = s.pi
            /\ cost_m = s.cost
            /\ pre = s
        /\ moves_m \in Neighborhoods(n)
        /\ recorder = best_ever_recorder(permutation_problem(n))
    /\ updated = TRUE
    /\ last = NoOp
    /\ chain \in {<<forever>>, <<iteration_termination_criteria(MaxIter)>>}
    /\ fresh = chain
    /\ built = chain
    /\ tlast = NoCall
    /\ calls = 0
    /\ streak = 0
    /\ cfg \in [starting_temp : StartTemps, stop_temp : FloorTemps,
                 sched : {linear_cooling_double(d) : d \in Decrements}]
    /\ current_temp_m = DoubleZero
    /\ pc = "idle"
    /\ movit = 1
    /\ actual_cost = 0
    /\ events = <<>>
    /\ g = NoFloorSearch
    /\ ApiIdle
    /\ ObjIdle

\* The entry of search(): current_temp_m = starting_temp_m.
FloorStart ==
    /\ pc = "idle"
    /\ current_temp_m' = cfg.starting_temp
    /\ pc' = "check"
    /\ UNCHANGED <<objVars, apiVars, permVars, chainVars, cfg, moves_m, recorder, movit,
                   actual_cost, events, g>>

\* One pass of the while loop: the condition holds, the neighborhood is
\* refreshed and scanned, and the schedule gives the next temperature.
FloorIterate ==
    LET c == loop_condition_double(chain, cost_m, current_temp_m, cfg.stop_temp) IN
    /\ pc = "check"
    /\ c.go
    /\ chain' = c.chain
    /\ calls' = calls + 1
    /\ actual_cost' = cost_m
    /\ moves_m' = full_refresh(moves_m)
    /\ pre' = sol
    /\ \E o \in scan_outcomes(costKind, full_refresh(moves_m), 1, sol, recorder, cost_m,
                               double_sign(current_temp_m)) :
        /\ pi_m' = o.sol.pi
        /\ cost_m' = o.sol.cost
        /\ recorder' = o.rec
        /\ events' = o.events
        /\ movit' = o.movit
        /\ g' = [g EXCEPT !.iters = @ + 1, !.refreshes = @ + 1, !.cools = @ + 1,
                          !.moved = @ + o.applied,
                          !.returned = linear_cooling_call_double(cfg.sched, current_temp_m),
                          !.exact = @ /\ subtraction_exact(cfg.sched, current_temp_m)]
    /\ current_temp_m' = linear_cooling_call_double(cfg.sched, current_temp_m)
    /\ UNCHANGED <<objVars, apiVars, costKind, updated, last, fresh, built, tlast, streak,
                   cfg, pc>>

\* The condition fails: search() returns.
FloorExit ==
    LET c == loop_condition_double(chain, cost_m, current_temp_m, cfg.stop_temp) IN
    /\ pc = "check"
    /\ ~c.go
    /\ chain' = c.chain
    /\ calls' = calls + 1
    /\ pc' = "done"
    /\ UNCHANGED <<objVars, apiVars, permVars, fresh, built, tlast, streak, cfg, current_temp_m,
                   moves_m, recorder, movit, actual_cost, events, g>>

-----------------------------------------------------------------------------
(* search() called again on the same objects *)

\* Most calls of search() on one simulated_annealing object.
MaxRuns == 2

\* A constructed simulated_annealing with a linear schedule and a chain that is
\* an iteration cap or forever.
InitAgain ==
    /\ InitSearch
    /\ costKind = "linear"
    /\ chain \in {<<forever>>} \cup {<<iteration_termination_criteria(m)>> : m \in 0..MaxIter}
    /\ cfg.sched.kind = "linear"
    /\ cfg.stop_temp = 0

\* The entry of search(), the first time or again: current_temp_m =
\* starting_temp_m, and nothing else is touched. objs logs the entries: the outer
\* iterations of the search before, and whether the iteration cap at the head
\* of the chain was used up at this entry.
SearchEntry ==
    /\ pc \in {"idle", "done"}
    /\ Len(objs) < MaxRuns
    /\ current_temp_m' = cfg.starting_temp
    /\ pc' = "check"
    /\ g' = [NoSearch EXCEPT !.low = cost_m]
    /\ objs' = Append(objs, [before |-> g.iters,
                             exhausted |-> /\ chain[1].kind = "iteration"
                                           /\ chain[1].iterations_m = 0])
    /\ UNCHANGED <<heap, cop, nbh, apiVars, permVars, chainVars, cfg, moves_m, recorder, movit,
                   actual_cost, events>>

\* The caller resets the chain while no search is running.
ResetBetween ==
    /\ pc \in {"idle", "done"}
    /\ Reset

-----------------------------------------------------------------------------
(* A noimprove_termination_criteria at the head of a chain, any tolerance *)

\* Tolerances of either sign, in units of the cost resolution: the constructor
\* takes any gol_type.
AnyEpsilons == {-2, 0, 1}

\* A noimprove criterion alone, or followed by forever or by an iteration cap.
NoImproveInit ==
    /\ PermIdle
    /\ SearchIdle
    /\ ApiIdle
    /\ ObjIdle
    /\ \E max \in 0..MaxIter, e \in AnyEpsilons :
        chain \in {<<noimprove_termination_criteria(max, e)>>,
                   <<noimprove_termination_criteria(max, e), forever>>,
                   <<noimprove_termination_criteria(max, e),
                     iteration_termination_criteria(1)>>}
    /\ fresh = chain
    /\ built = chain
    /\ tlast = NoCall
    /\ calls = 0
    /\ streak = 0

-----------------------------------------------------------------------------
(* Specifications *)

\* The permutation problem and its moves; the chain stays as constructed.
Init ==
    /\ InitPerm
    /\ chain = <<forever>>
    /\ fresh = chain
    /\ built = chain
    /\ tlast = NoCall
    /\ calls = 0
    /\ streak = 0
    /\ SearchIdle
    /\ ApiIdle
    /\ ObjIdle

Next ==
    \/ UpdateCost
    \/ ApplySwap
    \/ SwapElementsApply
    \/ InvertSubsequenceApply
    \/ CopyFrom

Spec == Init /\ [][Next]_vars

\* The termination chain; the solution stays as constructed.
ChainInit ==
    /\ InitChain
    /\ pi_m = permutation_problem(2).pi
    /\ cost_m = permutation_problem(2).cost
    /\ pre = permutation_problem(2)
    /\ costKind = "linear"
    /\ updated = FALSE
    /\ last = NoOp
    /\ SearchIdle
    /\ ApiIdle
    /\ ObjIdle

ChainNext ==
    \/ Invoke
    \/ Reset

ChainSpec == ChainInit /\ [][ChainNext]_vars

\* Scenario S4: a solution of size 5 as constructed, and the moves on it.
S4Start == Vec(<<0, 1, 2, 3, 4>>)

S4Init ==
    /\ pi_m = S4Start
    /\ cost_m = 0
    /\ pre = [pi |-> S4Start, cost |-> 0]
    /\ costKind \in CostKinds
    /\ updated = FALSE
    /\ last = NoOp
    /\ chain = <<forever>>
    /\ fresh = chain
    /\ built = chain
    /\ tlast = NoCall
    /\ calls = 0
    /\ streak = 0
    /\ SearchIdle
    /\ ApiIdle
    /\ ObjIdle

S4Next ==
    \/ UpdateCost
    \/ InvertSubsequenceApply

S4Spec == S4Init /\ [][S4Next]_vars

\* A recorder over a template of size 2 and the solutions its caller offers.
RecorderInit ==
    /\ PermIdle
    /\ ChainIdle
    /\ SearchIdle
    /\ ApiIdle
    /\ ObjIdle

RecorderNext == Offer

RecorderSpec == RecorderInit /\ [][RecorderNext]_vars

\* Constructor calls with any argument, and moves called on any solution.
ApiInit ==
    /\ PermIdle
    /\ ChainIdle
    /\ SearchIdle
    /\ ApiIdle
    /\ ObjIdle

ApiNext ==
    \/ NewExponentialCooling
    \/ NewLinearCooling
    \/ NewSwapFullNeighborhood
    \/ NewInvertFullNeighborhood
    \/ RefreshFull
    \/ MoveEvaluate
    \/ MoveApply

ApiSpec == ApiInit /\ [][ApiNext]_vars

\* Two permutation problems: copies between them and swaps on either.
CopyInit ==
    /\ pi_m = permutation_problem(2).pi
    /\ cost_m = permutation_problem(2).cost
    /\ pre = permutation_problem(2)
    /\ updated = FALSE
    /\ last = NoOp
    /\ ChainIdle
    /\ SearchIdle
    /\ ApiIdle
    /\ InitObjs

CopySpec == CopyInit /\ [][CopyFromObj \/ ApplySwapObj]_vars

\* Invocations and resets of a chain headed by a noimprove criterion.
NoImproveSpec == NoImproveInit /\ [][Invoke \/ Reset]_vars

\* search() called up to MaxRuns times, the chain reset or not in between.
AgainSpec ==
    InitAgain /\ [][SearchEntry \/ LoopCheck \/ AcceptMove \/ RejectMove \/ ScanEnd
                     \/ Cool \/ ResetBetween]_vars

\* One search() with a linear schedule on double temperatures.
FloorSpec == InitFloor /\ [][FloorStart \/ FloorIterate \/ FloorExit]_vars

\* Moves evaluated on a solution that apply_swap keeps changing.
EvalSpec == Init /\ [][ApplySwap \/ EvaluateMove]_vars

\* Two moves constructed, changed and compared.
MoveSpec == MoveInit /\ [][NewMove \/ ChangeMove]_vars

\* A swap_neighborhood refreshed again and again.
NeighborhoodSpec == NeighborhoodInit /\ [][RefreshSwapNeighborhood]_vars

\* One search() of a simulated_annealing object.
SearchNext ==
    \/ SearchStart
    \/ LoopCheck
    \/ AcceptMove
    \/ RejectMove
    \/ ScanEnd
    \/ Cool

SearchSpec == InitSearch /\ [][SearchNext]_vars

\* Scenario S1: n = 4, cost = sum of pi[i] * i, the identity with its cost 14,
\* every swap, iteration_termination_criteria(500), and a linear schedule that
\* lowers the temperature from starting_temp_m to the stop temperature 0.
S1Init ==
    /\ costKind = "linear"
    /\ pi_m = update_cost("linear", permutation_problem(4)).pi
    /\ cost_m = update_cost("linear", permutation_problem(4)).cost
    /\ pre = update_cost("linear", permutation_problem(4))
    /\ updated = TRUE
    /\ last = NoOp
    /\ chain = <<iteration_termination_criteria(500)>>
    /\ fresh = chain
    /\ built = chain
    /\ tlast = NoCall
    /\ calls = 0
    /\ streak = 0
    /\ cfg \in [starting_temp : 1..S1MaxTemp, stop_temp : {0},
                 sched : {linear_cooling(d) : d \in 1..MaxTemp}]
    /\ current_temp_m = 0
    /\ moves_m = swap_full_neighborhood(4).moves
    /\ recorder = best_ever_recorder(permutation_problem(4))
    /\ pc = "idle"
    /\ movit = 1
    /\ actual_cost = 0
    /\ events = <<>>
    /\ g = NoSearch
    /\ ApiIdle
    /\ ObjIdle

S1Spec == S1Init /\ [][SearchNext]_vars

-----------------------------------------------------------------------------
(* Properties of the permutation problem and its moves *)

\* The arc length of the spec's section 3: (p2 - p1 + 1) mod n, or n when that is 0.
ArcLength(n, p1, p2) ==
    LET r == (n + p2 - p1 + 1) % n IN IF r = 0 THEN n ELSE r

\* The positions on the circular arc from p1 to p2.
Arc(n, p1, p2) == {(p1 + k) % n : k \in 0..(ArcLength(n, p1, p2) - 1)}

\* C1: after construction and after any sequence of apply_swap, swap_elements
\* and invert_subsequence applications and copy_from from another solution of
\* the same size, pi_m holds every integer of 0..n-1 exactly once.
C1_PermutationInvariant == IsPermutation(pi_m, size(pre.pi))

\* C1 witness: a wrapped inversion on a size-4 solution has rearranged pi_m.
C1_Witness ==
    /\ last.op = "invert_subsequence"
    /\ last.a > last.b
    /\ size(pi_m) = 4
    /\ pi_m # pre.pi

\* C2: once update_cost() has run, cost_m equals compute_cost() of the current
\* pi_m after every operation; and apply_swap(i, j) adds the delta evaluated on
\* the state before the swap and exchanges pi_m[i] and pi_m[j].
C2_IncrementalCost ==
    /\ updated => cost_m = compute_cost(costKind, pi_m)
    /\ last.op = "apply_swap" =>
        /\ cost_m = pre.cost + compute_cost(costKind, pi_m) - compute_cost(costKind, pre.pi)
        /\ pi_m[last.a] = pre.pi[last.b]
        /\ pi_m[last.b] = pre.pi[last.a]
        /\ \A k \in DOMAIN pi_m \ {last.a, last.b} : pi_m[k] = pre.pi[k]

\* C2 witness: after update_cost(), an apply_swap of two positions changed the cost.
C2_Witness ==
    /\ updated
    /\ last.op = "apply_swap"
    /\ last.a # last.b
    /\ cost_m # pre.cost

\* C3: what swap_elements::evaluate returned before the move was applied is
\* the cost the solution has after swap_elements::apply.
C3_SwapEvaluateIsCostAfter ==
    last.op = "swap_elements" => last.eval = cost_m

\* C3 witness: a swap_elements built from (from > to) was applied and changed the cost.
C3_Witness ==
    /\ last.op = "swap_elements"
    /\ last.a > last.b
    /\ cost_m # pre.cost
    /\ pre.cost # 0

\* C4: what invert_subsequence::evaluate returned before the move was applied
\* is the cost the solution has after invert_subsequence::apply.
C4_InvertEvaluateIsCostAfter ==
    last.op = "invert_subsequence" => last.eval = cost_m

\* C5: invert_subsequence(p1, p2) with p1 # p2 reverses the circular arc from p1
\* to p2, leaves every other position alone, and the cost moves by what the
\* paired swaps performed one after another add up to (the exact deltas
\* telescope to the difference of the cost function between the two arrangements).
C5_InvertReversesArc ==
    (last.op = "invert_subsequence" /\ last.a # last.b) =>
        LET n == size(pre.pi)
            len == ArcLength(n, last.a, last.b)
        IN  /\ \A k \in 0..(len - 1) :
                 pi_m[(last.a + k) % n] = pre.pi[(n + last.b - k) % n]
            /\ \A i \in (0..(n - 1)) \ Arc(n, last.a, last.b) : pi_m[i] = pre.pi[i]
            /\ cost_m = pre.cost + compute_cost(costKind, pi_m)
                                 - compute_cost(costKind, pre.pi)

\* C5 witness: a wrapped inversion over the whole circle of a size-4 solution
\* (two paired swaps) took place.
C5_Witness ==
    /\ last.op = "invert_subsequence"
    /\ size(pi_m) = 4
    /\ last.a = 3
    /\ last.b = 2
    /\ pi_m # pre.pi
    /\ cost_m # pre.cost

S4Case ==
    /\ pre.pi = S4Start
    /\ last.op = "invert_subsequence"
    /\ last.a = 3
    /\ last.b = 1

\* C6 as stated: invert_subsequence(3, 1) turns (0,1,2,3,4) into (3,1,0,4,2).
C6_S4AsStated == S4Case => pi_m = Vec(<<3, 1, 0, 4, 2>>)

\* C6: invert_subsequence(3, 1) turns (0,1,2,3,4) into (4,3,2,1,0): the values
\* at positions 3, 4, 0, 1 are reversed and position 2 is untouched.
C6_S4Reversed == S4Case => pi_m = Vec(<<4, 3, 2, 1, 0>>)

\* C6 witness: invert_subsequence(3, 1) was applied to (0,1,2,3,4).
C6_Witness == S4Case /\ pi_m # S4Start

-----------------------------------------------------------------------------
(* Properties of the termination chain *)

AloneIs(kind) == Len(built) = 1 /\ built[1].kind = kind

\* C7: an iteration criterion with budget max >= 0 and no successor answers
\* false on invocations 1..max (counting from construction or the last reset),
\* decrementing its counter each time, answers true on invocation max+1 and on
\* every later one, leaving the counter alone; reset() restores the counter.
C7_IterationCap ==
    AloneIs("iteration") =>
        LET max == built[1].max_m IN
        /\ chain[1].iterations_m = max - Min(calls, max)
        /\ tlast.op = "invoke" =>
            /\ tlast.res = (calls >= max + 1)
            /\ tlast.res => chain = tlast.before
            /\ ~tlast.res => chain[1].iterations_m = tlast.before[1].iterations_m - 1
        /\ tlast.op = "reset" => chain[1].iterations_m = max

\* C7 witness: with budget 2 the fourth invocation since a reset answered true.
C7_Witness ==
    /\ AloneIs("iteration")
    /\ built[1].max_m = 2
    /\ tlast.afterReset
    /\ tlast.op = "invoke"
    /\ calls = 4
    /\ tlast.res

\* C8: a no-improvement criterion with no successor answers true exactly when
\* the last max invocations, this one included, each failed to bring the cost
\* below the tracked best by more than epsilon; an improving invocation records
\* the cost as the new best, restores iterations_left_m to max (of which this
\* invocation then consumes one) and answers false when max > 0.
C8_NoImprovement ==
    (AloneIs("noimprove") /\ tlast.op = "invoke") =>
        LET max == built[1].max_noimprove_m
            was == tlast.before[1]
        IN  /\ tlast.res = (streak >= max)
            /\ Improves(was, tlast.cost) =>
                /\ chain[1].best_cost_m = tlast.cost
                /\ max > 0 => (~tlast.res /\ chain[1].iterations_left_m = max - 1)
            /\ ~Improves(was, tlast.cost) => chain[1].best_cost_m = was.best_cost_m

\* C8 witness: with max = 2, four invocations of which the first two improved
\* and the last two did not: the fourth is the first to answer true.
C8_Witness ==
    /\ AloneIs("noimprove")
    /\ built[1].max_noimprove_m = 2
    /\ tlast.op = "invoke"
    /\ tlast.res
    /\ streak = 2
    /\ calls = 4
    /\ chain[1].resets_m = 2
    /\ chain[1].total_iterations_m = 3

\* The criterion's own test, before any delegation.
OwnFires(node, cost) ==
    CASE node.kind = "iteration" -> node.iterations_m <= 0
      [] node.kind = "noimprove" ->
            IF Improves(node, cost)
            THEN node.max_noimprove_m <= 0
            ELSE node.iterations_left_m <= 0
      [] node.kind = "threshold" -> cost < node.level_m + node.epsilon_m
      [] node.kind = "forever" -> FALSE

\* C9: an invocation of criterion A answers true iff A's own test fires or,
\* otherwise, its successor B answers true; when A fires, B is not invoked and
\* its state is unchanged; a criterion without successor whose test does not
\* fire answers false.  The test of a threshold criterion is cost < level + epsilon.
C9_ShortCircuit ==
    tlast.op = "invoke" =>
        LET A == tlast.before[1]
            rest == Tail(tlast.before)
        IN  /\ OwnFires(A, tlast.cost) =>
                /\ tlast.res
                /\ Tail(chain) = rest
            /\ (~OwnFires(A, tlast.cost) /\ rest # <<>>) =>
                /\ tlast.res = invoke(rest, 1, tlast.cost).res
                /\ Tail(chain) = invoke(rest, 1, tlast.cost).chain
            /\ (~OwnFires(A, tlast.cost) /\ rest = <<>>) => ~tlast.res
            /\ AloneIs("threshold") =>
                tlast.res = (tlast.cost < built[1].level_m + built[1].epsilon_m)

\* C9 witness: a threshold criterion fired ahead of an iteration criterion that
\* earlier invocations had reached, and left its counter where it was.
C9_Witness ==
    /\ tlast.op = "invoke"
    /\ Len(chain) = 2
    /\ chain[1].kind = "threshold"
    /\ chain[2].kind = "iteration"
    /\ tlast.res
    /\ chain[2].iterations_m > 0
    /\ chain[2].iterations_m < chain[2].max_m

\* C10: reset() on the head puts every criterion of the chain back into its
\* state at construction, and from then on the chain answers every cost as a
\* freshly constructed chain fed the same costs does.
C10_ResetRestores ==
    /\ tlast.op = "reset" => chain = built
    /\ tlast.afterReset =>
        /\ chain = fresh
        /\ tlast.op = "invoke" => tlast.res = tlast.fres

\* C10 witness: a chain of an iteration and a no-improvement criterion was
\* reset after both had counted, and has since been invoked to the point of stopping.
C10_Witness ==
    /\ tlast.afterReset
    /\ tlast.op = "invoke"
    /\ tlast.res
    /\ Len(chain) = 2
    /\ chain[1].kind = "iteration"
    /\ chain[2].kind = "noimprove"
    /\ chain[2].resets_m > 0
    /\ calls >= 2

-----------------------------------------------------------------------------
(* Properties of simulated_annealing::search() *)

\* The search was given an iteration criterion followed by a threshold criterion.
CapThenThreshold ==
    /\ Len(built) = 2
    /\ built[1].kind = "iteration"
    /\ built[2].kind = "threshold"

\* search() has returned while the temperature was still above stop_temp_m.
EndedAboveStop == pc = "done" /\ current_temp_m > cfg.stop_temp

\* The search ran exactly m outer iterations: m refreshes and m cooling steps.
RanExactly(m) == g.iters = m /\ g.refreshes = m /\ g.cools = m

\* C11 as stated: with the chain iteration(m) -> threshold(L, eps), a cost
\* that never drops below L and a temperature that stays above the stop
\* temperature, search() runs exactly m outer iterations and then stops.
C11_ExactlyM_AsStated ==
    (CapThenThreshold /\ EndedAboveStop /\ g.low >= built[2].level_m)
        => RanExactly(built[1].max_m)

\* C11 amended: the same when the cost never drops below L + eps; and a search
\* with this chain never runs more than m outer iterations.
C11_ExactlyM ==
    /\ CapThenThreshold => g.iters <= built[1].max_m
    /\ (CapThenThreshold /\ EndedAboveStop
            /\ g.low >= built[2].level_m + built[2].epsilon_m)
        => RanExactly(built[1].max_m)

\* C11 witness: a search with iteration(2) -> threshold(1, 1) ended after two
\* outer iterations above the stop temperature; it moved the solution, whose
\* cost stayed at L + eps or above.
C11_Witness ==
    /\ CapThenThreshold
    /\ EndedAboveStop
    /\ built[1].max_m = 2
    /\ built[2].level_m = 1
    /\ built[2].epsilon_m = 1
    /\ g.low >= 2
    /\ recorder.best_cost < GolMax
    /\ RanExactly(2)

\* delta of the move at position k of the neighborhood against the solution
\* the outer iteration started from.
DeltaAt(k) == move_evaluate(costKind, moves_m[k], pre) - pre.cost

\* C12: in an outer iteration the moves are evaluated in the neighborhood's
\* order against the cost captured before the scan; a move with delta < 0 is
\* never rejected; the first accepted move is applied and ends the scan, so at
\* most one move is applied per outer iteration and none behind it is reached;
\* an outer iteration that accepts no move leaves pi and cost as they were.
C12_FirstAcceptedEndsScan ==
    /\ g.draw = "reject" => g.delta >= 0
    /\ g.applied <= 1
    /\ pc = "scan" =>
        /\ g.applied = 0
        /\ sol = pre
        /\ actual_cost = pre.cost
        /\ movit \in 1..(Len(moves_m) + 1)
        /\ \A k \in 1..(movit - 1) : DeltaAt(k) >= 0
    /\ (pc = "cool" /\ g.applied = 0) =>
        /\ sol = pre
        /\ movit = Len(moves_m) + 1
        /\ \A k \in 1..Len(moves_m) : DeltaAt(k) >= 0
    /\ (pc = "cool" /\ g.applied = 1) =>
        /\ movit \in 1..Len(moves_m)
        /\ \A k \in 1..(movit - 1) : DeltaAt(k) >= 0
        /\ g.delta = DeltaAt(movit)
        /\ last.eval = move_evaluate(costKind, moves_m[movit], pre)
        /\ sol = move_apply(costKind, moves_m[movit], pre)

\* C12 witness: in a later outer iteration the scan passed over moves that
\* were not accepted, then met an improving move and applied it.
C12_Witness ==
    /\ pc = "cool"
    /\ g.iters >= 2
    /\ g.applied = 1
    /\ movit >= 2
    /\ movit < Len(moves_m)
    /\ g.delta < 0
    /\ sol # pre

\* C13: the cooling schedule is called once at the end of every outer
\* iteration, whether the scan accepted a move, rejected them all or had no
\* move to look at; a search over an empty neighborhood goes through its
\* outer iterations and leaves the working solution and the recorder as they were.
C13_CoolsOncePerIteration ==
    /\ pc \in {"check", "done"} => g.cools = g.iters
    /\ pc \in {"scan", "cool"} => g.cools = g.iters - 1
    /\ Len(moves_m) = 0 =>
        /\ sol = pre
        /\ g.applied = 0
        /\ recorder = best_ever_recorder(permutation_problem(size(pi_m)))

\* C13 witness: a search over an empty neighborhood has ended after two outer
\* iterations and two cooling steps.
C13_Witness ==
    /\ Len(moves_m) = 0
    /\ pc = "done"
    /\ g.iters = 2
    /\ g.cools = 2

\* C14: during search() current_temp_m is never negative, even when the
\* cooling schedule returned a negative value, and no outer iteration is
\* executed after the schedule returned a negative value.
C14_TempClamped ==
    /\ pc # "idle" => current_temp_m >= 0
    /\ (pc \in {"scan", "cool"} /\ g.cools > 0) => g.returned >= 0

\* A notification of step, showing the working solution as it is now.
Shows(step) == [step |-> step, pi |-> pi_m, cost |-> cost_m]

\* C15: the notifications of an outer iteration are none while moves are
\* rejected, and for the accepted move exactly one MOVE_MADE, preceded by one
\* IMPROVEMENT_MADE exactly when the recorder's accept() returned true; each
\* shows the working solution after the move was applied. An accepted move
\* that did not beat the recorder's best leaves MOVE_MADE alone.
C15_Notifications ==
    /\ g.applied = 0 => events = <<>>
    /\ g.applied = 1 =>
        events = IF g.accepted
                 THEN <<Shows("IMPROVEMENT_MADE"), Shows("MOVE_MADE")>>
                 ELSE <<Shows("MOVE_MADE")>>
    /\ g.accepted => g.applied = 1 /\ recorder.best_cost = cost_m
    /\ (g.applied = 1 /\ ~g.accepted) => recorder.best_cost <= cost_m

\* C15 witness: a cost-worsening move was accepted on the draw and applied
\* once; the recorder, holding a better solution, turned it down and only
\* MOVE_MADE was notified.
C15_Witness ==
    /\ pc = "cool"
    /\ g.applied = 1
    /\ g.draw = "accept"
    /\ g.delta > 0
    /\ cost_m > pre.cost
    /\ ~g.accepted
    /\ recorder.best_cost < cost_m
    /\ Len(events) = 1
    /\ events[1].step = "MOVE_MADE"

-----------------------------------------------------------------------------
(* Properties of the recorder *)

\* The lowest cost among the first k offers; +infinity when there is none.
RECURSIVE MinOffered(_)
MinOffered(k) == IF k = 0 THEN GolMax ELSE Min(offered[k].cost, MinOffered(k - 1))

\* The offers on which accept() returned true.
Taken == {i \in 1..Len(answers) : answers[i].res}

\* C16: from best cost +infinity, after any sequence of offers the stored best
\* cost is the minimum of the costs offered and never rose on the way;
\* accept() returned true exactly on the offers strictly below the best stored
\* before them, and the snapshot is the solution of the last such offer (the
\* template while there is none). The scripted costs 10, 8, 9, 7, 12 end with 7.
C16_BestEver ==
    /\ Len(answers) = Len(offered)
    /\ recorder.best_cost = MinOffered(Len(offered))
    /\ \A i \in 1..Len(offered) :
        /\ answers[i].best_cost = MinOffered(i)
        /\ answers[i].best_cost <= MinOffered(i - 1)
        /\ answers[i].res = (offered[i].cost < MinOffered(i - 1))
    /\ Taken = {} => recorder.best = permutation_problem(2)
    /\ Taken # {} =>
        \E i \in Taken :
            /\ \A j \in Taken : j <= i
            /\ recorder.best = offered[i]
    /\ [i \in 1..Len(offered) |-> offered[i].cost] = <<10, 8, 9, 7, 12>>
        => recorder.best_cost = 7

\* C16 witness: the costs 10, 8, 9, 7, 12 were offered; the offers of 10, 8 and
\* 7 were taken, and the snapshot is the fourth solution, not the second of
\* another arrangement.
C16_Witness ==
    /\ [i \in 1..Len(offered) |-> offered[i].cost] = <<10, 8, 9, 7, 12>>
    /\ Taken = {1, 2, 4}
    /\ recorder.best_cost = 7
    /\ recorder.best = offered[4]
    /\ offered[4].pi # offered[2].pi

-----------------------------------------------------------------------------
(* Scenario S1 *)

\* C17: whatever the acceptance draws, when the search of scenario S1 ends
\* the recorder's best cost is at most 14 and at least the optimum 4.
C17_S1Recorder ==
    pc = "done" => (recorder.best_cost <= 14 /\ recorder.best_cost >= 4)

\* C17 witness: a search of S1 from temperature 10 has ended; its last outer
\* iteration rejected every move around the optimum (3,2,1,0) of cost 4, which
\* the recorder holds.
C17_Witness ==
    /\ pc = "done"
    /\ cfg.starting_temp = 10
    /\ chain[1].iterations_m < 500
    /\ g.applied = 0
    /\ movit = Len(moves_m) + 1
    /\ pi_m = Vec(<<3, 2, 1, 0>>)
    /\ recorder.best_cost = 4
    /\ recorder.best.pi = Vec(<<3, 2, 1, 0>>)

-----------------------------------------------------------------------------
(* Properties of constructors and of moves on other solutions *)

\* C18: constructing exponential_cooling(alpha) fails exactly for the alpha
\* outside the open interval (0, 1), and constructing linear_cooling(delta)
\* fails exactly for delta <= 0.
C18_SchedulesRejectInvalid ==
    \A i \in 1..Len(api) :
        /\ api[i].call = "exponential_cooling" =>
            ((api[i].outcome # "none")
                <=> ~(0 < api[i].arg.num /\ api[i].arg.num < api[i].arg.den))
        /\ api[i].call = "linear_cooling" =>
            ((api[i].outcome # "none") <=> api[i].arg <= 0)

\* C19: constructing a full neighborhood with a size below 2 ends by raising
\* InvalidParameter: it does not return an empty neighborhood, and it does not
\* run on.
C19_SmallSizeRejected ==
    \A i \in 1..Len(api) :
        (api[i].call \in {"swap_full_neighborhood", "invert_full_neighborhood"}
            /\ api[i].arg < 2)
        => api[i].outcome = "InvalidParameter"

\* C20: evaluate or apply of a move on a solution that is not a permutation
\* problem raises TypeMismatch and leaves the solution unchanged.
C20_TypeMismatch ==
    \A i \in 1..Len(api) :
        (api[i].call \in {"evaluate", "apply"}
            /\ api[i].before.class # "permutation_problem")
        => (api[i].outcome = "TypeMismatch" /\ api[i].after = api[i].before)

-----------------------------------------------------------------------------
(* Properties of copy_from *)

\* C21: after a successful a.copy_from(b) the pi and cost of a are those b had,
\* and b keeps them; an apply_swap on either object, also after a copy, leaves
\* the pi and cost of the other as they were; copy_from of an object of another
\* class fails and leaves the pi and cost of a as they were.
C21_DeepCopy ==
    /\ (cop.op = "copy_from" /\ cop.outcome = "ok") =>
        /\ Deref(objs[cop.target]) = cop.before
        /\ Deref(objs[cop.source]) = cop.before
    /\ cop.op = "apply_swap" => Deref(objs[3 - cop.target]) = cop.before
    /\ (cop.op = "copy_from" /\ objs[cop.source].class # "permutation_problem") =>
        /\ cop.outcome = "bad_cast"
        /\ Deref(objs[cop.target]) = cop.before

\* C21 witness: after a copy between the two objects a swap on one of them
\* changed it, and the two now differ in pi and in cost.
C21_Witness ==
    /\ cop.op = "apply_swap"
    /\ cop.copied
    /\ Deref(objs[1]).pi # Deref(objs[2]).pi
    /\ objs[1].cost # objs[2].cost
    /\ size(heap[1]) = size(heap[2])

-----------------------------------------------------------------------------
(* Properties of the neighborhoods *)

\* The moves of a list, as a set.
MoveSet(moves) == {moves[k] : k \in 1..Len(moves)}

\* C22: for a size n of 2 or more, swap_full_neighborhood(n) holds n(n-1)/2
\* moves, one swap_elements for each pair i < j and none twice, and
\* invert_full_neighborhood(n) holds n(n-1) moves, one invert_subsequence for
\* each ordered pair i # j; refresh() leaves the list and its order as they are.
C22_FullNeighborhoods ==
    \A k \in 1..Len(api) :
        LET n == api[k].arg
            moves == api[k].moves
        IN  /\ (api[k].call = "swap_full_neighborhood" /\ n >= 2) =>
                /\ api[k].outcome = "ok"
                /\ 2 * Len(moves) = n * (n - 1)
                /\ Cardinality(MoveSet(moves)) = Len(moves)
                /\ \A m \in MoveSet(moves) :
                    m.kind = "swap" /\ m.p1 \in 0..(n - 1) /\ m.p2 \in 0..(n - 1)
                /\ \A i \in 0..(n - 1), j \in 0..(n - 1) :
                    i < j <=> [kind |-> "swap", p1 |-> i, p2 |-> j] \in MoveSet(moves)
            /\ (api[k].call = "invert_full_neighborhood" /\ n >= 2) =>
                /\ api[k].outcome = "ok"
                /\ Len(moves) = n * (n - 1)
                /\ Cardinality(MoveSet(moves)) = Len(moves)
                /\ \A m \in MoveSet(moves) :
                    m.kind = "invert" /\ m.p1 \in 0..(n - 1) /\ m.p2 \in 0..(n - 1)
                /\ \A i \in 0..(n - 1), j \in 0..(n - 1) :
                    i # j <=> [kind |-> "invert", p1 |-> i, p2 |-> j] \in MoveSet(moves)
            /\ api[k].call = "refresh" => api[k].refreshed = moves

\* C22 witness: the full swap neighborhood of size 4 was constructed with its
\* 6 moves, then the full inversion neighborhood of size 4 with its 12.
C22_Witness ==
    /\ Len(api) = 2
    /\ api[1].call = "swap_full_neighborhood"
    /\ api[1].arg = 4
    /\ Len(api[1].moves) = 6
    /\ api[2].call = "invert_full_neighborhood"
    /\ api[2].arg = 4
    /\ Len(api[2].moves) = 12

\* C23: a swap_neighborhood of k moves holds the same k move objects in the
\* same order from its construction through every refresh; after a refresh on
\* a solution of size n >= 2 every one of them has 0 <= p1 < p2 < n.
C23_StochasticMoves ==
    /\ nbh.moves_m = [a \in 1..nbh.n |-> a]
    /\ DOMAIN heap = 1..nbh.n
    /\ \A a \in 1..nbh.n : heap[a].kind = "swap"
    /\ nbh.refreshes > 0 =>
        \A a \in 1..nbh.n :
            /\ 0 <= heap[a].p1
            /\ heap[a].p1 < heap[a].p2
            /\ heap[a].p2 < size(pi_m)

\* C23 witness: a neighborhood of three moves on a solution of size 3 has been
\* refreshed twice and holds three different swaps.
C23_Witness ==
    /\ nbh.n = 3
    /\ size(pi_m) = 3
    /\ nbh.refreshes = 2
    /\ heap[1] # heap[2]
    /\ heap[2] # heap[3]
    /\ heap[1] # heap[3]

\* C24: a swap_elements keeps p1 <= p2 after construction and after change, so
\* swap_elements(a, b) equals swap_elements(b, a); two invert_subsequence moves
\* are equal exactly when they were given the same pair in the same order, so
\* (a, b) differs from (b, a) when a # b; a swap_elements and an
\* invert_subsequence are never equal, in either direction; equal moves have
\* equal hashes, and the hash is p1 shifted left by 16 bits, xor p2.
C24_MoveEquality ==
    \A x \in DOMAIN heap, y \in DOMAIN heap :
        LET m == heap[x]
            o == heap[y]
        IN  /\ m.kind = "swap" => m.p1 <= m.p2
            /\ (m.kind = "swap" /\ o.kind = "swap"
                    /\ objs[x].from = objs[y].to /\ objs[x].to = objs[y].from)
                => move_equals(m, o)
            /\ (m.kind = "invert" /\ o.kind = "invert")
                => (move_equals(m, o) <=> objs[x] = objs[y])
            /\ (m.kind = "invert" /\ o.kind = "invert" /\ objs[x].from # objs[x].to
                    /\ objs[x].from = objs[y].to /\ objs[x].to = objs[y].from)
                => ~move_equals(m, o)
            /\ m.kind # o.kind => ~move_equals(m, o)
            /\ move_equals(m, o) => move_hash(m) = move_hash(o)
            /\ (move_hash(m) % 65536) = m.p2
            /\ (move_hash(m) \div 65536) = m.p1

\* C24 witness: a swap_elements changed to (2, 1) beside a swap_elements
\* given (1, 2): equal, with the hash 65538.
C24_Witness ==
    /\ cop.op = "change"
    /\ cop.target = 1
    /\ DOMAIN heap = 1..2
    /\ DOMAIN objs = 1..2
    /\ heap[1].kind = "swap"
    /\ heap[2].kind = "swap"
    /\ objs[1] = [from |-> 2, to |-> 1]
    /\ objs[2] = [from |-> 1, to |-> 2]
    /\ move_equals(heap[1], heap[2])
    /\ move_hash(heap[1]) = 65538

\* The move of the last call, from the arguments the history keeps.
LastEvaluated ==
    IF last.op = "swap_elements_evaluate" THEN swap_elements(last.a, last.b)
    ELSE invert_subsequence(last.a, last.b)

C26_SamePositionNoOp ==
    (last.op = "invert_subsequence" /\ last.a = last.b) =>
        /\ invert_top(size(pre.pi), last.a, last.b) = 1
        /\ pi_m = pre.pi
        /\ cost_m = pre.cost
        /\ last.eval = 0

\* g.iters is at most ceil((T_start - T_stop) / delta): for a whole number k,
\* k <= ceil(x / d) exactly when (k - 1) * d < x.
WithinFloorBound ==
    g.iters >= 1 =>
        /\ double_gt(cfg.starting_temp, cfg.stop_temp)
        /\ double_gt(exact_sub(cfg.starting_temp, cfg.stop_temp),
                     exact_times(cfg.sched.decrement_m, g.iters - 1))

\* With T_start <= T_stop no outer iteration runs and no move is applied.
NothingBelowFloor ==
    ~double_gt(cfg.starting_temp, cfg.stop_temp) =>
        /\ g.iters = 0
        /\ g.moved = 0
        /\ sol = pre

\* C27 as stated: with linear_cooling(delta > 0) and T_stop >= 0 search() runs
\* at most ceil((T_start - T_stop) / delta) outer iterations, whatever the
\* chain answers and whatever moves are accepted, and none when T_start <= T_stop.
C27_FloorAsStated == WithinFloorBound /\ NothingBelowFloor

\* C27: the same, the bound holding when every subtraction temp - delta of
\* the run is exact in double arithmetic.
C27_FloorBound == (g.exact => WithinFloorBound) /\ NothingBelowFloor

\* C27 witness: the search from 1 down to 0 in steps of 0.25 under a chain that
\* never stops it has ended after four iterations, and moves were made.
C27_Witness ==
    /\ pc = "done"
    /\ chain = <<forever>>
    /\ cfg.starting_temp = DoubleOne
    /\ cfg.stop_temp = DoubleZero
    /\ cfg.sched.decrement_m = DoubleQuarter
    /\ g.iters = 4
    /\ g.exact
    /\ g.moved > 0

\* C28: search() enters with current_temp_m = starting_temp_m and leaves the
\* chain as it finds it; every loop check, the last one included, asks the
\* chain, so an iteration cap has counted every check since its construction
\* or last reset(); a search entered with the cap used up, as after a search
\* that the cap ended with no reset() since, runs no outer iteration.
C28_ChainCarriesOver ==
    /\ (pc = "check" /\ g.cools = 0) => current_temp_m = cfg.starting_temp
    /\ chain[1].kind = "iteration" =>
            chain[1].iterations_m = Max(0, chain[1].max_m - calls)
    /\ \A r \in DOMAIN objs :
            (r = Len(objs) /\ objs[r].exhausted) => g.iters = 0

\* C28 witness: a first search ran MaxIter outer iterations and was stopped by
\* its cap above the stop temperature; the second, with no reset() in between,
\* has ended without an outer iteration.
C28_Witness ==
    /\ Len(objs) = 2
    /\ objs[2].before = MaxIter
    /\ objs[2].exhausted
    /\ tlast.op # "reset"
    /\ pc = "done"
    /\ g.iters = 0
    /\ current_temp_m = cfg.starting_temp
    /\ current_temp_m > cfg.stop_temp

\* C29: the recorder is offered the working solution once for every accepted
\* move, right after the move is applied, and never otherwise: its best cost is
\* the lowest cost among the states reached by an accepted move, the starting
\* solution not counted, its best solution has that cost, and while no move has
\* been accepted it is as it was constructed.
C29_RecorderSeesAcceptedOnly ==
    /\ recorder.best_cost = g.lowAccepted
    /\ g.lowAccepted < GolMax => recorder.best.cost = g.lowAccepted
    /\ g.lowAccepted = GolMax =>
            recorder = best_ever_recorder(permutation_problem(size(pi_m)))
    /\ (pc = "cool" /\ g.draw = "accept") => recorder.best_cost <= cost_m

\* C29 witness: a search has ended in which moves were accepted, all of them
\* to states costlier than the starting solution: the recorder holds the best
\* of those states, above the lowest cost the working solution had.
C29_Witness ==
    /\ pc = "done"
    /\ g.lowAccepted < GolMax
    /\ recorder.best_cost > g.low
    /\ g.iters >= 2

\* The counters of the head criterion stay in range.
CountersInRange ==
    /\ 0 <= chain[1].iterations_left_m
    /\ chain[1].iterations_left_m <= chain[1].max_noimprove_m
    /\ 0 <= chain[1].second_guess_m
    /\ chain[1].second_guess_m <= chain[1].max_noimprove_m

\* Did the head criterion itself answer stop on the last invocation?
OwnStop ==
    (IF Improves(tlast.before[1], tlast.cost)
     THEN tlast.before[1].max_noimprove_m
     ELSE tlast.before[1].iterations_left_m) <= 0

\* total_iterations_m and resets_m count, since construction or the last
\* reset(), the invocations the criterion did not stop itself and the improving ones.
CountersCount ==
    /\ tlast.op \in {"construct", "reset"} =>
            /\ chain[1].total_iterations_m = 0
            /\ chain[1].resets_m = 0
    /\ tlast.op = "invoke" =>
            /\ chain[1].total_iterations_m =
                    tlast.before[1].total_iterations_m + (IF OwnStop THEN 0 ELSE 1)
            /\ chain[1].resets_m =
                    tlast.before[1].resets_m
                        + (IF Improves(tlast.before[1], tlast.cost) THEN 1 ELSE 0)
    /\ chain[1].total_iterations_m <= calls
    /\ chain[1].resets_m <= calls

\* An invocation never raises best_cost_m.
BestCostFalls ==
    tlast.op = "invoke" => chain[1].best_cost_m <= tlast.before[1].best_cost_m

\* C30 as stated: for noimprove_termination_criteria(max >= 0, eps), under any
\* interleaving of invocations and reset(), the counters stay in range, count
\* what they are said to count, and best_cost_m never increases between resets.
C30_CountersAsStated == CountersInRange /\ CountersCount /\ BestCostFalls

\* C30: the same, best_cost_m never increasing when eps >= 0.
C30_Counters ==
    /\ CountersInRange
    /\ CountersCount
    /\ chain[1].epsilon_m >= 0 => BestCostFalls

\* C30 witness: a criterion with max = 2 and eps = 0 was reset, saw an
\* improvement after a stretch without one, and then answered stop itself.
C30_Witness ==
    /\ chain[1].max_noimprove_m = 2
    /\ chain[1].epsilon_m = 0
    /\ tlast.afterReset
    /\ tlast.op = "invoke"
    /\ tlast.res
    /\ OwnStop
    /\ chain[1].resets_m = 2
    /\ chain[1].second_guess_m = 1
    /\ chain[1].total_iterations_m = 3

====
